---- MODULE Spec2Model ----
(***************************************************************************)
(* The file-based task queue of CodeAgent (src/src/queue/taskQueue.ts),    *)
(* the HTTP API and the worker that call it.                               *)
(*                                                                         *)
(* JavaScript values are written as strings: "true", "false", "undefined", *)
(* "null", "0" are the literals, and a JavaScript string s is written with *)
(* its quotes, "'s'".  An object (TaskOptions) is a function from the keys *)
(* it has to their values, so that a key holding undefined and a missing   *)
(* key are different objects, as they are for the spread operator.         *)
(***************************************************************************)
EXTENDS Integers, Sequences, FiniteSets, TLC

\* ---------------------------------------------------------------- bounds
\* Largest number of tasks addTask creates in one run.
MaxTasks == 2
\* Largest reading of the millisecond clock (Date.now()).
MaxClock == 1
\* Largest number of queue operations started in one run.
MaxOps == 4
\* Largest number of tasks the worker is given to process.
MaxRuns == 1
\* Largest number of poll timers installed at one time.
MaxTimers == 2
\* Largest number of GitHubClient operations called in one run.
MaxGitHubCalls == 2

VARIABLES
    file,        \* the parsed content of the queue file (TaskQueueData)
    now,         \* the last reading of the system clock, in milliseconds
    nextId,      \* the number of task ids the queue has generated so far, plus one
    nops,        \* the number of queue operations started so far
    prev,        \* the content of the queue file when the last operation started
    last,        \* the last finished operation: name, task id, input, outcome, returned task
    added,       \* the ids addTask has returned, in call order
    dequeued,    \* the ids getNextTask has returned, in call order
    onlyAddGet,  \* TRUE while only addTask and getNextTask have been called
    pc,          \* per TaskQueue client: the operation between its load and its save
    run,         \* the worker's processQueue / processTask call: the awaited call and its locals
    active,      \* the activeTasks entry of the run's task id
    calls,       \* the capability calls the run has finished, in order, with their outcomes
    github,      \* the remote repository: its branches and the pull requests opened
    answer,      \* what the chat service answered to the call that has just finished, if it was asked
    worker       \* the AgentWorker: how far start() has got, its currentTask, isRunning,
                 \* whether pollTimer is set, and the poll timers that are installed

runVars == <<run, active, calls, github, answer, worker>>

vars == <<file, now, nextId, nops, prev, last, added, dequeued, onlyAddGet, pc,
          run, active, calls, github, answer, worker>>

\* ------------------------------------------------------ JavaScript values
Undefined == "undefined"

\* An absent timestamp (the field is undefined).
NoTime == -1

\* An absent task or result: the empty tuple; a present one is <<value>>.
None == << >>

Some(v) == <<v>>

\* o.k : the value under key k, undefined when o has no such key.
Get(o, k) == IF k \in DOMAIN o THEN o[k] ELSE Undefined

\* The values JavaScript treats as false in a || b.
Falsy(v) == v \in {"undefined", "null", "false", "0", "''"}

\* a || b
Or(a, b) == IF Falsy(a) THEN b ELSE a

\* a !== false, as a JavaScript boolean.
NotFalse(a) == IF a # "false" THEN "true" ELSE "false"

\* { ...a, ...b } : the keys of both, b's value where both have the key.
Spread(a, b) ==
    [k \in (DOMAIN a) \cup (DOMAIN b) |-> IF k \in DOMAIN b THEN b[k] ELSE a[k]]

\* JSON.parse(JSON.stringify(o)) on an object: keys holding undefined are dropped.
JsonObject(o) == [k \in {x \in DOMAIN o : o[x] # Undefined} |-> o[k]]

\* -------------------------------------------------------------- the store
EmptyStore == [pending |-> << >>, processing |-> << >>, completed |-> << >>, failed |-> << >>]

Partitions == {"pending", "processing", "completed", "failed"}

\* JSON.stringify(tasks) as JSON.parse reads it back.
JsonTask(t) == [t EXCEPT !.options = JsonObject(@)]

JsonSeq(s) == [i \in 1..Len(s) |-> JsonTask(s[i])]

JsonStore(tasks) == [p \in Partitions |-> JsonSeq(tasks[p])]

\* tasks.findIndex(t => t.id === taskId), counted from 1; 0 stands for -1.
FindIndex(s, taskId) ==
    IF \E i \in 1..Len(s) : s[i].id = taskId
    THEN CHOOSE i \in 1..Len(s) : s[i].id = taskId /\ \A j \in 1..(i-1) : s[j].id # taskId
    ELSE 0

\* s.splice(i, 1)
Splice(s, i) == [j \in 1..(Len(s)-1) |-> IF j < i THEN s[j] ELSE s[j+1]]

\* loadTasks: the parsed file, or the empty structure when reading or parsing fails.
loadTasks(readOk) == IF readOk THEN file ELSE EmptyStore

\* ------------------------------------------------------------ operations
\* Each operation is given the loaded tasks and returns the tasks it wants saved,
\* whether it saves, its outcome and the task it returns.
Outcome(tasks, save, outcome, ret) ==
    [tasks |-> tasks, save |-> save, outcome |-> outcome, ret |-> ret]

addTaskOptions(options) ==
    Spread([createPR     |-> NotFalse(Get(options, "createPR")),
            baseBranch   |-> Or(Get(options, "baseBranch"), "'main'"),
            branchName   |-> Get(options, "branchName"),
            requirements |-> Get(options, "requirements")],
           options)

addTask(tasks, taskDescription, options, id, t) ==
    LET task == [id          |-> id,
                 description |-> taskDescription,
                 status      |-> "pending",
                 createdAt   |-> t,
                 startedAt   |-> NoTime,
                 completedAt |-> NoTime,
                 failedAt    |-> NoTime,
                 options     |-> addTaskOptions(options),
                 result      |-> None,
                 error       |-> Undefined]
    IN  Outcome([tasks EXCEPT !.pending = Append(@, task)], TRUE, "ok", Some(task))

\* getNextTask taking the newest pending task (pop) instead of the oldest (shift).
getNextTask_Newest(tasks, t) ==
    IF Len(tasks.pending) = 0
    THEN Outcome(tasks, FALSE, "none", None)
    ELSE LET n == Len(tasks.pending)
             task == [tasks.pending[n] EXCEPT !.status = "processing", !.startedAt = t]
         IN  Outcome([tasks EXCEPT !.pending = SubSeq(@, 1, n - 1),
                                   !.processing = Append(@, task)],
                     TRUE, "ok", Some(task))

\* getNextTask moving the task without `task.status = 'processing'`.
getNextTask_StatusKept(tasks, t) ==
    IF Len(tasks.pending) = 0
    THEN Outcome(tasks, FALSE, "none", None)
    ELSE LET task == [Head(tasks.pending) EXCEPT !.startedAt = t]
         IN  Outcome([tasks EXCEPT !.pending = Tail(@), !.processing = Append(@, task)],
                     TRUE, "ok", Some(task))

getNextTask(tasks, t) ==
    IF Len(tasks.pending) = 0
    THEN Outcome(tasks, FALSE, "none", None)
    ELSE LET task == [Head(tasks.pending) EXCEPT !.status = "processing", !.startedAt = t]
         IN  Outcome([tasks EXCEPT !.pending = Tail(@), !.processing = Append(@, task)],
                     TRUE, "ok", Some(task))

\* completeTask without the splice: the task stays in processing as well.
completeTask_NoSplice(tasks, taskId, result, t) ==
    LET taskIndex == FindIndex(tasks.processing, taskId)
    IN  IF taskIndex = 0
        THEN Outcome(tasks, FALSE, "NotFound", None)
        ELSE LET task == [tasks.processing[taskIndex] EXCEPT
                              !.status = "completed", !.completedAt = t, !.result = Some(result)]
             IN  Outcome([tasks EXCEPT !.completed = Append(@, task)], TRUE, "ok", Some(task))

\* completeTask that, like failTask, falls back to the pending partition.
completeTask_FromPending(tasks, taskId, result, t) ==
    LET taskIndex == FindIndex(tasks.processing, taskId)
        pendingIndex == FindIndex(tasks.pending, taskId)
        Done(task) == [task EXCEPT !.status = "completed", !.completedAt = t,
                                   !.result = Some(result)]
    IN  IF taskIndex = 0
        THEN IF pendingIndex # 0
             THEN Outcome([tasks EXCEPT !.pending = Splice(@, pendingIndex),
                                        !.completed = Append(@, Done(tasks.pending[pendingIndex]))],
                          TRUE, "ok", Some(Done(tasks.pending[pendingIndex])))
             ELSE Outcome(tasks, FALSE, "NotFound", None)
        ELSE Outcome([tasks EXCEPT !.processing = Splice(@, taskIndex),
                                   !.completed = Append(@, Done(tasks.processing[taskIndex]))],
                     TRUE, "ok", Some(Done(tasks.processing[taskIndex])))

\* completeTask that stamps startedAt again.
completeTask_Restamps(tasks, taskId, result, t) ==
    LET taskIndex == FindIndex(tasks.processing, taskId)
    IN  IF taskIndex = 0
        THEN Outcome(tasks, FALSE, "NotFound", None)
        ELSE LET task == [tasks.processing[taskIndex] EXCEPT
                              !.status = "completed", !.startedAt = t,
                              !.completedAt = t, !.result = Some(result)]
             IN  Outcome([tasks EXCEPT !.processing = Splice(@, taskIndex),
                                       !.completed = Append(@, task)],
                         TRUE, "ok", Some(task))

completeTask(tasks, taskId, result, t) ==
    LET taskIndex == FindIndex(tasks.processing, taskId)
    IN  IF taskIndex = 0
        THEN Outcome(tasks, FALSE, "NotFound", None)
        ELSE LET task == [tasks.processing[taskIndex] EXCEPT
                              !.status = "completed", !.completedAt = t, !.result = Some(result)]
             IN  Outcome([tasks EXCEPT !.processing = Splice(@, taskIndex),
                                       !.completed = Append(@, task)],
                         TRUE, "ok", Some(task))

\* error instanceof Error ? error.message : String(error)
\* An Error is [kind |-> "Error", message |-> m]; a string is [kind |-> "string", value |-> s].
errorText(error) == IF error.kind = "Error" THEN error.message ELSE error.value

\* failTask without the fallback to the pending partition.
failTask_ProcessingOnly(tasks, taskId, error, t) ==
    LET taskIndex == FindIndex(tasks.processing, taskId)
        Failed(task) == [task EXCEPT !.status = "failed", !.failedAt = t,
                                     !.error = errorText(error)]
    IN  IF taskIndex = 0
        THEN Outcome(tasks, FALSE, "NotFound", None)
        ELSE Outcome([tasks EXCEPT !.processing = Splice(@, taskIndex),
                                   !.failed = Append(@, Failed(tasks.processing[taskIndex]))],
                     TRUE, "ok", Some(Failed(tasks.processing[taskIndex])))

failTask(tasks, taskId, error, t) ==
    LET taskIndex == FindIndex(tasks.processing, taskId)
        pendingIndex == FindIndex(tasks.pending, taskId)
        Failed(task) == [task EXCEPT !.status = "failed", !.failedAt = t,
                                     !.error = errorText(error)]
    IN  IF taskIndex = 0
        THEN IF pendingIndex # 0
             THEN Outcome([tasks EXCEPT !.pending = Splice(@, pendingIndex),
                                        !.failed = Append(@, Failed(tasks.pending[pendingIndex]))],
                          TRUE, "ok", Some(Failed(tasks.pending[pendingIndex])))
             ELSE Outcome(tasks, FALSE, "NotFound", None)
        ELSE Outcome([tasks EXCEPT !.processing = Splice(@, taskIndex),
                                   !.failed = Append(@, Failed(tasks.processing[taskIndex]))],
                     TRUE, "ok", Some(Failed(tasks.processing[taskIndex])))

\* retryTask that leaves the old error on the task.
retryTask_KeepsError(tasks, taskId, t) ==
    LET taskIndex == FindIndex(tasks.failed, taskId)
    IN  IF taskIndex = 0
        THEN Outcome(tasks, FALSE, "NotFound", None)
        ELSE LET task == [tasks.failed[taskIndex] EXCEPT
                              !.status = "pending", !.createdAt = t,
                              !.failedAt = NoTime, !.startedAt = NoTime,
                              !.completedAt = NoTime, !.result = None]
             IN  Outcome([tasks EXCEPT !.failed = Splice(@, taskIndex),
                                       !.pending = Append(@, task)],
                         TRUE, "ok", Some(task))

\* retryTask that forgets to clear startedAt.
retryTask_KeepsStartedAt(tasks, taskId, t) ==
    LET taskIndex == FindIndex(tasks.failed, taskId)
    IN  IF taskIndex = 0
        THEN Outcome(tasks, FALSE, "NotFound", None)
        ELSE LET task == [tasks.failed[taskIndex] EXCEPT
                              !.status = "pending", !.createdAt = t,
                              !.error = Undefined, !.failedAt = NoTime,
                              !.completedAt = NoTime, !.result = None]
             IN  Outcome([tasks EXCEPT !.failed = Splice(@, taskIndex),
                                       !.pending = Append(@, task)],
                         TRUE, "ok", Some(task))

\* retryTask that also accepts a task of the completed partition.
retryTask_FromCompleted(tasks, taskId, t) ==
    LET taskIndex == FindIndex(tasks.failed, taskId)
        doneIndex == FindIndex(tasks.completed, taskId)
        Reset(task) == [task EXCEPT !.status = "pending", !.createdAt = t,
                                    !.error = Undefined, !.failedAt = NoTime,
                                    !.startedAt = NoTime, !.completedAt = NoTime,
                                    !.result = None]
    IN  IF taskIndex = 0
        THEN IF doneIndex = 0
             THEN Outcome(tasks, FALSE, "NotFound", None)
             ELSE Outcome([tasks EXCEPT !.completed = Splice(@, doneIndex),
                                        !.pending = Append(@, Reset(tasks.completed[doneIndex]))],
                          TRUE, "ok", Some(Reset(tasks.completed[doneIndex])))
        ELSE Outcome([tasks EXCEPT !.failed = Splice(@, taskIndex),
                                   !.pending = Append(@, Reset(tasks.failed[taskIndex]))],
                     TRUE, "ok", Some(Reset(tasks.failed[taskIndex])))

retryTask(tasks, taskId, t) ==
    LET taskIndex == FindIndex(tasks.failed, taskId)
    IN  IF taskIndex = 0
        THEN Outcome(tasks, FALSE, "NotFound", None)
        ELSE LET task == [tasks.failed[taskIndex] EXCEPT
                              !.status = "pending", !.createdAt = t,
                              !.error = Undefined, !.failedAt = NoTime,
                              !.startedAt = NoTime, !.completedAt = NoTime,
                              !.result = None]
             IN  Outcome([tasks EXCEPT !.failed = Splice(@, taskIndex),
                                       !.pending = Append(@, task)],
                         TRUE, "ok", Some(task))

\* getStats with a total that leaves the failed tasks out.
getStats_WithoutFailed(tasks) ==
    Outcome(tasks, FALSE, "ok",
            Some([pending    |-> Len(tasks.pending),
                  processing |-> Len(tasks.processing),
                  completed  |-> Len(tasks.completed),
                  failed     |-> Len(tasks.failed),
                  total      |-> Len(tasks.pending) + Len(tasks.processing)
                                 + Len(tasks.completed)]))

\* getStats: the length of each partition of the loaded tasks and their sum;
\* nothing is saved.
getStats(tasks) ==
    Outcome(tasks, FALSE, "ok",
            Some([pending    |-> Len(tasks.pending),
                  processing |-> Len(tasks.processing),
                  completed  |-> Len(tasks.completed),
                  failed     |-> Len(tasks.failed),
                  total      |-> Len(tasks.pending) + Len(tasks.processing)
                                 + Len(tasks.completed) + Len(tasks.failed)]))

\* ------------------------------------------------------------------ inputs
\* Task descriptions.
Descriptions == {"'hello world page'"}

\* The options objects callers pass to addTask: none, the documented ones, and
\* objects whose createPR or baseBranch key holds a value that is neither
\* (a JSON body such as {"createPR": null} reaches addTask through the API).
OptionInputs ==
    { << >>,
      [createPR |-> "true", baseBranch |-> "'develop'", branchName |-> "'fixed-branch'"],
      [createPR |-> "false", requirements |-> Undefined],
      [createPR |-> "null"] }

\* The errors passed to failTask: an Error object and a plain string.
ErrorInputs ==
    { [kind |-> "Error", message |-> "'generation failed'"],
      [kind |-> "string", value |-> "'timeout'"] }

\* The results passed to completeTask.
ResultInputs == { [success |-> "true", branchName |-> "'feature/x'", pr |-> "null"] }

\* Task ids are task-<milliseconds>-<random suffix>; two calls are taken never to
\* draw the same id, and the n-th id generated is written n.  UnknownId is an id
\* no task has.
UnknownId == 0

TaskIds == 0..MaxTasks

\* The clock readings an operation can take: the clock never runs backwards, and
\* two readings can fall in the same millisecond.
Readings == {t \in now..(now + 1) : t <= MaxClock}

\* The TaskQueue instances sharing the queue file: the API's and two workers'.
Workers == {"worker1", "worker2"}

Clients == {"api"} \cup Workers

\* The processQueue calls of one AgentWorker that can be under way together:
\* the one start() awaits, and those of two ticks of the poll timer.
Ticks == {"tick1", "tick2"}

Cycles == {"start"} \cup Ticks

Idle == [at |-> "idle"]

\* An AgentWorker after its constructor: not running, no current task.
NewWorker == [phase |-> "created", currentTask |-> None, isRunning |-> FALSE,
              pollTimer |-> FALSE, timers |-> 0]

\* The step index outside the step loop of a multi-step run.
NoStep == -1

\* The worker between two processQueue calls: currentTask is null and no
\* processTask call is running.
NoRun == [at |-> "idle", path |-> "none", task |-> None, taskId |-> UnknownId,
          description |-> Undefined, branchName |-> Undefined, options |-> << >>,
          plan |-> None, i |-> NoStep, allFiles |-> << >>, codeFiles |-> << >>,
          savedFiles |-> << >>, commitMessage |-> Undefined, pr |-> None,
          error |-> None, result |-> None]

\* activeTasks.get(taskId) of a task id the map does not hold.
NoStatus == [status |-> Undefined, error |-> Undefined, ended |-> FALSE,
             isMultiStep |-> FALSE, pr |-> None]

\* The largest number of requests on an operation's direct API path.
MaxRequests == 5

\* The branches the repository has before any run.
BaseBranches == {"'main'", "'develop'"}

\* ------------------------------------------------------------------- state
\* Nothing has been called yet.
InitCalls ==
    /\ now = 0
    /\ nextId = 1
    /\ nops = 0
    /\ last = [op |-> "init", id |-> UnknownId, input |-> None, fault |-> "none",
               outcome |-> "ok", ret |-> None]
    /\ added = << >>
    /\ dequeued = << >>
    /\ onlyAddGet = TRUE
    /\ worker = NewWorker

InitQueue ==
    /\ file = EmptyStore
    /\ prev = EmptyStore
    /\ pc = [c \in Clients \cup Cycles |-> Idle]
    /\ InitCalls
    /\ run = NoRun
    /\ active = NoStatus
    /\ calls = << >>
    /\ answer = None

\* The repository before any run: only the base branches exist; useMcp is the
\* GitHubClient's setting (config.mcp.useMcpServer && mcpClient.isEnabled()).
Repository(useMcp) == [branches |-> BaseBranches, prs |-> 0, useMcp |-> useMcp]

Init == InitQueue /\ github = Repository(FALSE)

\* The history kept about a finished operation.
Finished(name, arg, input, fault, outcome, ret) ==
    /\ last' = [op |-> name, id |-> arg, input |-> input, fault |-> fault,
                outcome |-> outcome, ret |-> ret]
    /\ added' = IF name = "addTask" /\ outcome = "ok" THEN Append(added, arg) ELSE added
    /\ dequeued' = IF name = "getNextTask" /\ outcome = "ok"
                   THEN Append(dequeued, ret[1].id) ELSE dequeued
    /\ onlyAddGet' = (onlyAddGet /\ name \in {"addTask", "getNextTask"})

\* saveTasks: the file is replaced by the serialized tasks; a failed write is
\* rethrown and leaves the file as it was.
saveTasks(tasks, writeOk) == IF writeOk THEN JsonStore(tasks) ELSE file

\* One operation run from its loadTasks to its return with no other operation in
\* between.  r is what the operation computed from the tasks loadTasks(readOk)
\* gave it; the operation ends with an I/O error only when its saveTasks throws.
Call(name, arg, input, r, readOk, writeOk, t) ==
    LET ioError == r.save /\ ~writeOk
        fault == IF ~readOk THEN "read" ELSE IF ioError THEN "write" ELSE "none"
    IN  /\ nops < MaxOps
        /\ nops' = nops + 1
        /\ now' = t
        /\ prev' = file
        /\ file' = IF r.save THEN saveTasks(r.tasks, writeOk) ELSE file
        /\ Finished(name, arg, input, fault,
                    IF ioError THEN "IOError" ELSE r.outcome,
                    IF ioError THEN None ELSE r.ret)
        /\ UNCHANGED pc
        /\ UNCHANGED runVars

AddTaskWith(readOk, writeOk) ==
    \E d \in Descriptions, o \in OptionInputs, t \in Readings :
        /\ nextId <= MaxTasks
        /\ nextId' = nextId + 1
        /\ Call("addTask", nextId, Some(o), addTask(loadTasks(readOk), d, o, nextId, t),
                readOk, writeOk, t)

GetNextTaskWith(readOk, writeOk) ==
    \E t \in Readings :
        /\ Call("getNextTask", UnknownId, None, getNextTask(loadTasks(readOk), t),
                readOk, writeOk, t)
        /\ UNCHANGED nextId

CompleteTaskWith(readOk, writeOk) ==
    \E id \in TaskIds, res \in ResultInputs, t \in Readings :
        /\ Call("completeTask", id, Some(res), completeTask(loadTasks(readOk), id, res, t),
                readOk, writeOk, t)
        /\ UNCHANGED nextId

FailTaskWith(readOk, writeOk) ==
    \E id \in TaskIds, e \in ErrorInputs, t \in Readings :
        /\ Call("failTask", id, Some(e), failTask(loadTasks(readOk), id, e, t),
                readOk, writeOk, t)
        /\ UNCHANGED nextId

RetryTaskWith(readOk, writeOk) ==
    \E id \in TaskIds, t \in Readings :
        /\ Call("retryTask", id, None, retryTask(loadTasks(readOk), id, t),
                readOk, writeOk, t)
        /\ UNCHANGED nextId

\* ------------------------- operations one at a time, the file readable and writable
AddTask == AddTaskWith(TRUE, TRUE)

GetNextTask == GetNextTaskWith(TRUE, TRUE)

CompleteTask == CompleteTaskWith(TRUE, TRUE)

FailTask == FailTaskWith(TRUE, TRUE)

RetryTask == RetryTaskWith(TRUE, TRUE)

Next == AddTask \/ GetNextTask \/ CompleteTask \/ FailTask \/ RetryTask

Spec == Init /\ [][Next]_vars

\* ----------------------- the same operations and getStats, one at a time
GetStats ==
    /\ Call("getStats", UnknownId, None, getStats(loadTasks(TRUE)), TRUE, TRUE, now)
    /\ UNCHANGED nextId

NextStats == Next \/ GetStats

SpecStats == Init /\ [][NextStats]_vars

\* ------------------- operations one at a time, reading or writing the file may fail
AddTaskIO == \E readOk \in BOOLEAN, writeOk \in BOOLEAN : AddTaskWith(readOk, writeOk)

GetNextTaskIO == \E readOk \in BOOLEAN, writeOk \in BOOLEAN : GetNextTaskWith(readOk, writeOk)

CompleteTaskIO == \E readOk \in BOOLEAN, writeOk \in BOOLEAN : CompleteTaskWith(readOk, writeOk)

FailTaskIO == \E readOk \in BOOLEAN, writeOk \in BOOLEAN : FailTaskWith(readOk, writeOk)

RetryTaskIO == \E readOk \in BOOLEAN, writeOk \in BOOLEAN : RetryTaskWith(readOk, writeOk)

NextIO == AddTaskIO \/ GetNextTaskIO \/ CompleteTaskIO \/ FailTaskIO \/ RetryTaskIO

SpecIO == Init /\ [][NextIO]_vars

\* ------------- the API's and the workers' TaskQueue on one file, operations interleaved
\* An operation awaits loadTasks, computes, and awaits saveTasks: between its load
\* and its save the other clients run.  Nothing serializes the clients.

\* Where a client is once its operation has returned or thrown.  A worker that was
\* given a task holds it (currentTask) while processTask runs; when completeTask
\* throws, processQueue's catch calls failTask; after failTask, or a successful
\* completeTask, the finally block clears currentTask.
AfterReturn(name, outcome, ret, cur) ==
    IF name = "getNextTask" /\ outcome = "ok" THEN [at |-> "processing", cur |-> ret[1].id]
    ELSE IF name = "completeTask" /\ outcome # "ok" THEN [at |-> "catch", cur |-> cur]
    ELSE Idle

\* What the history records when an operation returns.
Returned(name, arg, outcome, ret) ==
    /\ added' = IF name = "addTask" /\ outcome = "ok" THEN Append(added, arg) ELSE added
    /\ dequeued' = IF name = "getNextTask" /\ outcome = "ok"
                   THEN Append(dequeued, ret[1].id) ELSE dequeued

\* Client c's operation up to its saveTasks call: it has loaded the file and computed
\* r; an operation that does not save returns or throws at once.
Start(c, name, arg, r, t, cur) ==
    /\ nops < MaxOps
    /\ nops' = nops + 1
    /\ now' = t
    /\ IF r.save
       THEN /\ pc' = [pc EXCEPT ![c] = [at |-> "saving", op |-> name, id |-> arg,
                                        r |-> r, cur |-> cur]]
            /\ UNCHANGED <<added, dequeued>>
       ELSE /\ pc' = [pc EXCEPT ![c] = AfterReturn(name, r.outcome, r.ret, cur)]
            /\ Returned(name, arg, r.outcome, r.ret)
    /\ UNCHANGED <<file, prev, last, onlyAddGet>>
    /\ UNCHANGED runVars

\* handleAddTask: the API's addTask, to its save.
ApiAddTask ==
    \E d \in Descriptions, o \in OptionInputs, t \in Readings :
        /\ pc["api"].at = "idle"
        /\ nextId <= MaxTasks
        /\ nextId' = nextId + 1
        /\ Start("api", "addTask", nextId, addTask(loadTasks(TRUE), d, o, nextId, t), t, UnknownId)

\* handleRetryTask: the API's retryTask, to its save.
ApiRetryTask ==
    \E id \in TaskIds, t \in Readings :
        /\ pc["api"].at = "idle"
        /\ Start("api", "retryTask", id, retryTask(loadTasks(TRUE), id, t), t, UnknownId)
        /\ UNCHANGED nextId

\* processQueue with no current task: getNextTask, to its save.
WorkerGetNextTask ==
    \E w \in Workers, t \in Readings :
        /\ pc[w].at = "idle"
        /\ Start(w, "getNextTask", UnknownId, getNextTask(loadTasks(TRUE), t), t, UnknownId)
        /\ UNCHANGED nextId

\* processTask returned a result: completeTask on the current task, to its save.
WorkerCompleteTask ==
    \E w \in Workers, res \in ResultInputs, t \in Readings :
        /\ pc[w].at = "processing"
        /\ Start(w, "completeTask", pc[w].cur,
                 completeTask(loadTasks(TRUE), pc[w].cur, res, t), t, pc[w].cur)
        /\ UNCHANGED nextId

\* processTask or completeTask threw: failTask on the current task, to its save.
WorkerFailTask ==
    \E w \in Workers, e \in ErrorInputs, t \in Readings :
        /\ pc[w].at \in {"processing", "catch"}
        /\ Start(w, "failTask", pc[w].cur,
                 failTask(loadTasks(TRUE), pc[w].cur, e, t), t, pc[w].cur)
        /\ UNCHANGED nextId

\* A client's saveTasks replaces the file by what the client computed from the
\* tasks it loaded, and its operation returns.
SaveDone ==
    \E c \in Clients :
        /\ pc[c].at = "saving"
        /\ file' = saveTasks(pc[c].r.tasks, TRUE)
        /\ pc' = [pc EXCEPT ![c] = AfterReturn(pc[c].op, pc[c].r.outcome, pc[c].r.ret, pc[c].cur)]
        /\ Returned(pc[c].op, pc[c].id, pc[c].r.outcome, pc[c].r.ret)
        /\ UNCHANGED <<now, nextId, nops, prev, last, onlyAddGet>>
        /\ UNCHANGED runVars

NextConc ==
    \/ ApiAddTask
    \/ ApiRetryTask
    \/ WorkerGetNextTask
    \/ WorkerCompleteTask
    \/ WorkerFailTask
    \/ SaveDone

SpecConc == Init /\ [][NextConc]_vars

\* ------------------------------------------------------------ the task run
\* The worker's poll cycle (AgentWorker.processQueue), the orchestrator it calls
\* (TaskManager.processTask) and the capabilities the orchestrator awaits
\* (CodeGenerator, GitHubClient).  A state is an await: run.at names the awaited
\* call, and an action is the call's completion followed by the code up to the
\* next await.

\* The characters of the JavaScript string s, and the JavaScript string of these
\* characters.
Text(s) == SubSeq(s, 2, Len(s) - 1)

Str(text) == "'" \o text \o "'"

\* new Error(message)
Error(message) == [kind |-> "Error", message |-> message]

\* Array.prototype.join(', ') of an array of strings.
RECURSIVE Join(_)
Join(s) ==
    IF Len(s) = 0 THEN ""
    ELSE IF Len(s) = 1 THEN Text(s[1])
    ELSE Text(s[1]) \o ", " \o Join(Tail(s))

\* The white space and line terminators String.prototype.trim removes.
WhiteSpace == {" ", "\t", "\n", "\r"}

\* String.prototype.trim
RECURSIVE TrimText(_)
TrimText(text) ==
    IF Len(text) = 0 THEN text
    ELSE IF SubSeq(text, 1, 1) \in WhiteSpace THEN TrimText(SubSeq(text, 2, Len(text)))
    ELSE IF SubSeq(text, Len(text), Len(text)) \in WhiteSpace
         THEN TrimText(SubSeq(text, 1, Len(text) - 1))
    ELSE text

Trim(s) == Str(TrimText(Text(s)))

\* What a capability call gives its caller: a value, or a thrown error.
Returns(value) == [ok |-> TRUE, value |-> value]

Throws(error) == [ok |-> FALSE, error |-> error]

\* ------------------------------------------------------- CodeGenerator
\* What the model service can answer to a structured request: an error, a
\* response without parsed content, or parsed content.
Failure == [kind |-> "error", message |-> "'API rate limit exceeded'"]

NoParsed == [kind |-> "noParsed"]

Parsed(content) == [kind |-> "parsed", content |-> content]

\* The plans the planning service can return (PlanSchema): steps with an id, a
\* description, an order and optional dependencies (None when the key is absent).
PlanStep(id, description, order, dependencies) ==
    [id |-> id, description |-> description, order |-> order,
     dependencies |-> dependencies]

PlanContents ==
    { << >>,
      << PlanStep("'step-1'", "'write the page'", 1, None) >>,
      << PlanStep("'step-1'", "'write the page'", 1, None),
         PlanStep("'step-2'", "'style the page'", 2, Some(<<"'step-1'">>)) >>,
      << PlanStep("'step-1'", "'write the page'", 1, Some(<< >>)),
         PlanStep("'step-2'", "'style the page'", 2, Some(<<"'step-1'">>)),
         PlanStep("'step-3'", "'add a script'", 3, Some(<<"'step-1'", "'step-2'">>)) >>,
      << PlanStep("'step-1'", "'write the page'", 1, Some(<<"'step-2'">>)),
         PlanStep("'step-2'", "'style the page'", 2, Some(<< >>)) >>,
      << PlanStep("'step-1'", "'write the page'", 2, Some(<< >>)),
         PlanStep("'step-2'", "'style the page'", 1, Some(<<"'step-2'">>)) >>,
      << PlanStep("'step-1'", "'write the page'", 1, Some(<< >>)),
         PlanStep("'step-2'", "'style the page'", 2, Some(<<"'step-1'", "'step-9'">>)) >> }

PlanResponses == {Failure, NoParsed} \cup {Parsed(c) : c \in PlanContents}

\* generatePlan's fallback: one step that is the whole task.
FallbackPlan(taskDescription) ==
    [steps |-> << [id |-> "'step-1'", description |-> taskDescription,
                   status |-> "pending", order |-> 1, dependencies |-> << >>,
                   error |-> Undefined, result |-> None] >>,
     currentStepIndex |-> 0]

\* generatePlan without its catch: a failure of the service is thrown.
generatePlan_Throws(taskDescription, response) ==
    IF response.kind # "parsed"
    THEN Throws(Error("'No plan content from OpenAI'"))
    ELSE Returns([steps |-> [k \in 1..Len(response.content) |->
                                [id |-> response.content[k].id,
                                 description |-> response.content[k].description,
                                 status |-> "pending",
                                 order |-> response.content[k].order,
                                 dependencies |->
                                     IF response.content[k].dependencies = None
                                     THEN << >>
                                     ELSE response.content[k].dependencies[1],
                                 error |-> Undefined, result |-> None]],
                  currentStepIndex |-> 0])

\* generatePlan: the steps of the parsed plan, each pending; the fallback plan
\* when the service errors or returns no parsed content.  It never throws.
generatePlan(taskDescription, response) ==
    IF response.kind # "parsed"
    THEN Returns(FallbackPlan(taskDescription))
    ELSE Returns([steps |-> [k \in 1..Len(response.content) |->
                                [id |-> response.content[k].id,
                                 description |-> response.content[k].description,
                                 status |-> "pending",
                                 order |-> response.content[k].order,
                                 dependencies |->
                                     IF response.content[k].dependencies = None
                                     THEN << >>
                                     ELSE response.content[k].dependencies[1],
                                 error |-> Undefined, result |-> None]],
                  currentStepIndex |-> 0])

\* The files the generation service can return (FilesSchema).
FilesContents ==
    { << [path |-> "'index.html'", content |-> "'<h1>hello</h1>'"],
         [path |-> "'style.css'", content |-> "'h1 { color: teal }'"] >> }

CodeResponses == {Failure, NoParsed} \cup {Parsed(c) : c \in FilesContents}

\* The existingFiles objects a caller can give (Record<string, string>), each as
\* its entries in key order.
ExistingFiles(v) ==
    IF v = "{ 'style.css': 'body { margin: 0 }' }"
    THEN << [path |-> "'style.css'", content |-> "'body { margin: 0 }'"] >>
    ELSE << >>

\* object[f.path] = f.content: an existing key keeps its place.
Put(object, f) ==
    IF \E k \in 1..Len(object) : object[k].path = f.path
    THEN [k \in 1..Len(object) |-> IF object[k].path = f.path THEN f ELSE object[k]]
    ELSE Append(object, f)

\* The object after each of the files is put into it, in order.
RECURSIVE Assign(_, _)
Assign(object, files) ==
    IF files = << >> THEN object ELSE Assign(Put(object, files[1]), Tail(files))

\* The lines of JSON.stringify(object, null, 2) between its braces.
RECURSIVE JsonLines(_)
JsonLines(object) ==
    IF object = << >> THEN ""
    ELSE "  \"" \o Text(object[1].path) \o "\": \"" \o Text(object[1].content) \o "\""
         \o (IF Len(object) > 1 THEN ",\n" ELSE "\n") \o JsonLines(Tail(object))

\* JSON.stringify(object, null, 2)
Stringify(object) ==
    IF object = << >> THEN "{}" ELSE "{\n" \o JsonLines(object) \o "}"

ExistingFilesHeading == "Existing files in project:\n"

RequirementsHeading == "Additional requirements:\n"

\* generateCode's user prompt: the task, then the existing-files section when
\* context.existingFiles is truthy (any object is, one without keys too), then
\* the requirements section when context.requirements is truthy.
UserPrompt(taskDescription, context) ==
    "Task: " \o Text(taskDescription) \o "\n\n"
    \o (IF context.existingFiles # None
        THEN ExistingFilesHeading \o Stringify(context.existingFiles[1]) \o "\n"
        ELSE "")
    \o "\n"
    \o (IF ~Falsy(context.requirements)
        THEN RequirementsHeading \o Text(context.requirements) \o "\n"
        ELSE "")
    \o "\n\nGenerate the complete code structure needed to accomplish this task."

\* generateCode: the parsed files; any error is rethrown as "Failed to generate
\* code: ...".  There is no second attempt and no fallback value.
generateCode(response) ==
    IF response.kind = "error"
    THEN Throws(Error(Str("Failed to generate code: " \o Text(response.message))))
    ELSE IF response.kind = "noParsed"
    THEN Throws(Error(Str("Failed to generate code: No response content from OpenAI")))
    ELSE Returns(response.content)

\* A saveCodeFiles that stops at the first file it cannot write and returns the
\* files written before it.
saveCodeFiles_ReturnsWritten(files, fsOk) ==
    IF fsOk
    THEN Returns([k \in 1..Len(files) |-> [path |-> files[k].path,
                                           content |-> files[k].content]])
    ELSE Returns([k \in 1..(Len(files) - 1) |-> [path |-> files[k].path,
                                                 content |-> files[k].content]])

\* saveCodeFiles: the files written under the workspace, in order, each with its
\* path and content; a file-system error is rethrown as "Failed to save code
\* files: ...".
saveCodeFiles(files, fsOk) ==
    IF fsOk
    THEN Returns([k \in 1..Len(files) |-> [path |-> files[k].path,
                                           content |-> files[k].content]])
    ELSE Throws(Error(Str("Failed to save code files: EACCES: permission denied")))

\* What the chat service can answer to the commit-message request: an error, a
\* completion without choices, or a message content (null, empty, white space
\* only, or text with white space around it).
NoChoices == [kind |-> "noChoices"]

MessageResponses ==
    { Failure, NoChoices, Parsed("null"), Parsed("''"), Parsed("' \n '"),
      Parsed("' \n\tfeat: add the page \n '") }

\* `feat: ${taskDescription}`
FeatMessage(taskDescription) == Str("feat: " \o Text(taskDescription))

\* generateCommitMessage that rethrows the service's error as generateCode does.
generateCommitMessage_Rethrows(taskDescription, response) ==
    IF response.kind = "error"
    THEN Throws(Error(Str("Failed to generate commit message: " \o Text(response.message))))
    ELSE IF response.kind = "parsed" /\ ~Falsy(response.content)
    THEN Returns(Trim(response.content))
    ELSE Returns(FeatMessage(taskDescription))

\* generateCommitMessage: the trimmed content, or "feat: <description>" when the
\* content is falsy, the completion has no choice, or the service errors.  It
\* never throws.
generateCommitMessage(taskDescription, response) ==
    IF response.kind = "parsed" /\ ~Falsy(response.content)
    THEN Returns(Trim(response.content))
    ELSE Returns(FeatMessage(taskDescription))

\* ---------------------------------------------------------- GitHubClient
\* How createBranch, createOrUpdateFiles and createPullRequest can go: with MCP
\* enabled the MCP tool is called first and the direct API only after the MCP
\* call threw; without MCP only the direct API is called.
Attempts(useMcp) ==
    IF useMcp
    THEN { [mcp |-> "ok", api |-> "none"],
           [mcp |-> "failed", api |-> "ok"],
           [mcp |-> "failed", api |-> "failed"] }
    ELSE { [mcp |-> "none", api |-> "ok"],
           [mcp |-> "none", api |-> "failed"] }

Succeeded(attempt) == attempt.mcp = "ok" \/ attempt.api = "ok"

\* branchExists: repos.getBranch answers 200 or 404 as the branch exists or not;
\* any other error is rethrown as it is.
BranchResponses == {"answer", "error"}

\* A branch check that reports every branch absent.
branchExists_Absent(branchName, response) ==
    IF response = "answer"
    THEN Returns(FALSE)
    ELSE Throws(Error("'Bad credentials'"))

branchExists(branchName, response) ==
    IF response = "answer"
    THEN Returns(branchName \in github.branches)
    ELSE Throws(Error("'Bad credentials'"))

\* createBranch: the branch is created from the base branch, by the MCP tool or
\* by the direct API; an error of the direct API is rethrown as "Failed to
\* create branch: ...".
createBranch(branchName, baseBranch, attempt) ==
    IF Succeeded(attempt)
    THEN Returns([success |-> "true", branch |-> branchName])
    ELSE Throws(Error(Str("Failed to create branch: Not Found")))

\* createOrUpdateFiles: one commit of the files on the branch.
createOrUpdateFiles(branch, files, commitMessage, attempt) ==
    IF Succeeded(attempt)
    THEN Returns([success |-> "true"])
    ELSE Throws(Error(Str("Failed to create/update files: Reference does not exist")))

\* The n-th pull request of the repository, as the direct API returns it.
PullRequest(n) ==
    [number |-> n, html_url |-> Str("https://github.com/owner/repo/pull/" \o ToString(n))]

\* What the MCP tool can answer to create_pull_request: any JSON (MCPResponse),
\* with or without a pr object carrying number and html_url.
McpPullRequestResponses(n) ==
    { [success |-> "true", pr |-> Some(PullRequest(n))],
      [success |-> "true", pr |-> None] }

\* createPullRequest: the MCP tool's answer as it is, else the direct API's pull
\* request as { success, pr: { number, html_url } }; an error of the direct API
\* is rethrown as "Failed to create pull request: ...".
createPullRequest(attempt, mcpResponse, n) ==
    IF attempt.mcp = "ok" THEN Returns(mcpResponse)
    ELSE IF attempt.api = "ok"
    THEN Returns([success |-> "true", pr |-> Some(PullRequest(n))])
    ELSE Throws(Error(Str("Failed to create pull request: Validation Failed")))

\* The operations of GitHubClient that call the MCP tool first when MCP is
\* enabled.
McpOperations ==
    {"createBranch", "createOrUpdateFiles", "createPullRequest",
     "getPullRequestComments", "mergePullRequest"}

\* The MCP tool of an operation.
McpTool(name) ==
    CASE name = "createBranch"           -> "github_create_branch"
      [] name = "createOrUpdateFiles"    -> "github_create_commit"
      [] name = "createPullRequest"      -> "github_create_pull_request"
      [] name = "getPullRequestComments" -> "github_get_pull_request_comments"
      [] name = "mergePullRequest"       -> "github_merge_pull_request"

\* The requests of an operation's direct API path, in the order they are
\* awaited (git.createBlob stands for the blobs of all the files, which are
\* requested together).
ApiRequests(name) ==
    CASE name = "createBranch"           -> <<"git.getRef", "git.createRef">>
      [] name = "createOrUpdateFiles"    -> <<"git.getRef", "git.createBlob", "git.createTree",
                                             "git.createCommit", "git.updateRef">>
      [] name = "createPullRequest"      -> <<"pulls.create">>
      [] name = "getPullRequestComments" -> <<"issues.listComments",
                                             "pulls.listReviewComments">>
      [] name = "mergePullRequest"       -> <<"pulls.get", "pulls.merge">>

\* What an operation puts before the message of the error it rethrows.
FailedTo(name) ==
    CASE name = "createBranch"           -> "Failed to create branch: "
      [] name = "createOrUpdateFiles"    -> "Failed to create/update files: "
      [] name = "createPullRequest"      -> "Failed to create pull request: "
      [] name = "getPullRequestComments" -> "Failed to fetch PR comments: "
      [] name = "mergePullRequest"       -> "Failed to merge pull request: "

\* How the POST to an MCP tool can end: an answer (a 2xx status with a JSON
\* body), another status, or no response at all.
McpOutcomes == {"answer", "status", "network"}

\* MCPClient.callTool: one POST; the JSON body of a 2xx response is returned as
\* it is, any other status and any error of fetch is thrown.
callTool(toolName, outcome) ==
    IF outcome = "answer" THEN Returns([success |-> "true"])
    ELSE IF outcome = "status"
    THEN Throws(Error("'MCP server error: Internal Server Error'"))
    ELSE Throws(Error("'request to " \o toolName \o " failed'"))

\* One request made by an operation: to the MCP tool or to the direct API.
Request(via, request, ok) == [via |-> via, request |-> request, ok |-> ok]

\* The direct API path of an operation when its failAt-th request fails (none
\* for 0): the requests are awaited one after the other, so none is made after
\* the one that failed.
DirectApi(name, failAt) ==
    LET requests == ApiRequests(name)
        made == IF failAt = 0 THEN Len(requests) ELSE failAt
    IN  [sent   |-> [k \in 1..made |-> Request("api", requests[k], k # failAt)],
         result |-> IF failAt = 0 THEN Returns([success |-> "true"])
                    ELSE Throws(Error("'Not Found'"))]

\* An operation that takes the direct API path a second time when it failed.
GitHubOperation_RetriesApi(name, useMcp, mcp, failAt) ==
    LET tool == callTool(McpTool(name), mcp)
        viaMcp == << Request("mcp", McpTool(name), tool.ok) >>
        direct == DirectApi(name, failAt)
    IN  IF useMcp /\ tool.ok
        THEN [sent |-> viaMcp, result |-> tool]
        ELSE [sent   |-> (IF useMcp THEN viaMcp ELSE << >>) \o direct.sent
                         \o (IF direct.result.ok THEN << >> ELSE direct.sent),
              result |-> IF direct.result.ok THEN direct.result
                         ELSE Throws(Error(Str(FailedTo(name)
                                               \o Text(direct.result.error.message))))]

\* createBranch, createOrUpdateFiles, createPullRequest, getPullRequestComments
\* and mergePullRequest have one shape: with MCP enabled the MCP tool is called
\* and its answer returned; when that call throws the error is logged and the
\* direct API path is taken; an error of the direct API path is rethrown with
\* the operation's prefix.
GitHubOperation(name, useMcp, mcp, failAt) ==
    LET tool == callTool(McpTool(name), mcp)
        viaMcp == << Request("mcp", McpTool(name), tool.ok) >>
        direct == DirectApi(name, failAt)
    IN  IF useMcp /\ tool.ok
        THEN [sent |-> viaMcp, result |-> tool]
        ELSE [sent   |-> (IF useMcp THEN viaMcp ELSE << >>) \o direct.sent,
              result |-> IF direct.result.ok THEN direct.result
                         ELSE Throws(Error(Str(FailedTo(name)
                                               \o Text(direct.result.error.message))))]

\* ------------------------------------------------------------ TaskManager
\* The task options a caller gives for a run.  A createPR of null is what the
\* API passes on for a JSON body holding "createPR": null; requirements and
\* existingFiles are passed on as the body has them.
RunOptionInputs ==
    { << >>,
      [createPR |-> "false", requirements |-> "'use plain CSS'"],
      [branchName |-> "'fixed-branch'", baseBranch |-> "'develop'", createPR |-> "null",
       existingFiles |-> "{ 'style.css': 'body { margin: 0 }' }"],
      [multiStep |-> "false", existingFiles |-> "{}"] }

\* `task-${Date.now()}-${random}` of the n-th id generated.
TaskIdText(n) == "task-" \o ToString(n)

\* The id processTask generates on its k-th call: an id of its own, which no
\* task of the queue has (the queue's ids are 1..MaxRuns here).
RunTaskId(k) == MaxRuns + k

\* The run's state and its activeTasks entry after a piece of synchronous code.
After(rn, act) == [run |-> rn, active |-> act]

\* A catch that keeps the message an entry already marked failed carries.
Raise_KeepsStepMessage(rn, act, error) ==
    After([rn EXCEPT !.at = "failTask", !.error = Some(error)],
          [act EXCEPT !.status = "failed",
                      !.error = IF act.status = "failed" THEN @ ELSE error.message,
                      !.ended = TRUE])

\* processTask's catch: the entry is marked failed with the error's message and
\* an end time, and the error is rethrown to processQueue's catch, which awaits
\* failTask.
Raise(rn, act, error) ==
    After([rn EXCEPT !.at = "failTask", !.error = Some(error)],
          [act EXCEPT !.status = "failed", !.error = error.message, !.ended = TRUE])

\* A step loop without its catch: the failing step is left as it was.
StepRaise_StepUnmarked(rn, act, error) == Raise(rn, act, error)

\* The catch inside the step loop, then processTask's catch: the current step is
\* marked failed with the message, the entry gets "Step <id> failed: ..." and the
\* error is rethrown.
StepRaise(rn, act, error) ==
    LET step == rn.plan[1].steps[rn.i + 1]
        plan == [rn.plan[1] EXCEPT !.steps[rn.i + 1].status = "failed",
                                   !.steps[rn.i + 1].error = error.message]
        entry == [act EXCEPT !.status = "failed",
                             !.error = Str("Step " \o Text(step.id) \o " failed: "
                                           \o Text(error.message))]
    IN  Raise([rn EXCEPT !.plan = Some(plan)], entry, error)

\* depStep?.status === 'completed' for the first step with this id.
DependencyMet(steps, depId) ==
    LET k == FindIndex(steps, depId)
    IN  k # 0 /\ steps[k].status = "completed"

\* The step loop without its dependency check.
EnterStep_NoDependencyCheck(rn, act, i) ==
    LET steps == rn.plan[1].steps
    IN  IF i >= Len(steps)
        THEN After([rn EXCEPT !.i = i, !.at = "finalCommitMessage"],
                   [act EXCEPT !.status = "completed", !.pr = rn.pr, !.ended = TRUE])
        ELSE After([rn EXCEPT !.i = i, !.at = "generateCode",
                              !.plan = Some([rn.plan[1] EXCEPT
                                                 !.steps[i + 1].status = "in-progress",
                                                 !.currentStepIndex = i])],
                   [act EXCEPT !.status = "in-progress"])

\* The step loop from its test of i to its next await: after the last step the
\* entry is marked completed and the final commit message is requested; a step
\* with an unmet dependency throws before anything of it has started; otherwise
\* the step is marked in-progress and its code generation is requested.
EnterStep(rn, act, i) ==
    LET steps == rn.plan[1].steps
        step == steps[i + 1]
    IN  IF i >= Len(steps)
        THEN After([rn EXCEPT !.i = i, !.at = "finalCommitMessage"],
                   [act EXCEPT !.status = "completed", !.pr = rn.pr, !.ended = TRUE])
        ELSE IF /\ Len(step.dependencies) > 0
                /\ \E d \in 1..Len(step.dependencies) :
                       ~DependencyMet(steps, step.dependencies[d])
        THEN Raise([rn EXCEPT !.i = i], act,
                   Error(Str("Step " \o Text(step.id) \o " has unmet dependencies: "
                             \o Join(step.dependencies))))
        ELSE After([rn EXCEPT !.i = i, !.at = "generateCode",
                              !.plan = Some([rn.plan[1] EXCEPT
                                                 !.steps[i + 1].status = "in-progress",
                                                 !.currentStepIndex = i])],
                   [act EXCEPT !.status = "in-progress"])

\* The result processTask returns.
TaskResult(rn, files, commitMessage) ==
    [success |-> "true", taskId |-> rn.taskId, branchName |-> rn.branchName,
     files |-> files, commitMessage |-> commitMessage, pr |-> rn.pr]

\* A single-step path that returns without touching its activeTasks entry.
ReturnSingle_EntryUntouched(rn, act) ==
    After([rn EXCEPT !.at = "completeTask",
                     !.result = Some(TaskResult(rn, rn.savedFiles, rn.commitMessage))],
          act)

\* processSingleStepTask's end: the entry is marked completed and the result is
\* returned to processQueue, which awaits completeTask.
ReturnSingle(rn, act) ==
    After([rn EXCEPT !.at = "completeTask",
                     !.result = Some(TaskResult(rn, rn.savedFiles, rn.commitMessage))],
          [act EXCEPT !.status = "completed", !.pr = rn.pr, !.ended = TRUE])

\* An orchestrator that never keeps the pull request's reference.
PrOf_Dropped(prResult) == None

\* pr = { number, url } when prResult.pr is an object with number and html_url.
PrOf(prResult) ==
    IF prResult.pr # None
    THEN Some([number |-> prResult.pr[1].number, url |-> prResult.pr[1].html_url])
    ELSE None

\* One finished capability call, as the log keeps it: its name, the step it was
\* made for, what it was given (detail), and the value it returned or the error
\* it threw.
Logged(call, step, r, detail) ==
    [call |-> call, step |-> step, ok |-> r.ok, detail |-> detail,
     value |-> IF r.ok THEN Some(r.value) ELSE None,
     error |-> IF r.ok THEN None ELSE Some(r.error)]

\* A TaskQueue operation of the worker or the API, from its load to its return.
QueueCall(name, arg, input, r, t) ==
    /\ now' = t
    /\ prev' = file
    /\ file' = IF r.save THEN saveTasks(r.tasks, TRUE) ELSE file
    /\ Finished(name, arg, input, "none", r.outcome, r.ret)
    /\ UNCHANGED <<nops, pc>>

\* ------------------------------------------------- the worker's poll cycle
\* What a run's capability call leaves behind: the run and its entry after the
\* code up to the next await, the finished call in the log, the repository.
Answered(nx, entry, repository, response) ==
    /\ run' = nx.run
    /\ active' = nx.active
    /\ calls' = Append(calls, entry)
    /\ github' = repository
    /\ answer' = response
    /\ UNCHANGED <<file, now, nextId, nops, prev, last, added, dequeued, onlyAddGet, pc,
                   worker>>

\* The same for a call that did not ask the chat service.
Awaited(nx, entry, repository) == Answered(nx, entry, repository, None)

\* The step of the plan a call belongs to: the loop index on the multi-step
\* path, none on the single-step path.
StepOf(rn) ==
    IF /\ rn.path = "multi"
       /\ rn.at \in {"generateCode", "saveCodeFiles", "generateCommitMessage",
                     "createOrUpdateFiles", "createPullRequest"}
    THEN rn.i ELSE NoStep

\* An error that is swallowed: the run stays where it is and makes the failed
\* call again.
Thrown_Retried(rn, act, error) == After(rn, act)

\* A single-step path that catches a failed generation or save and goes on to
\* the branch check.
Thrown_SingleGoesOn(rn, act, error) ==
    IF rn.path = "single" /\ rn.at \in {"generateCode", "saveCodeFiles"}
    THEN After([rn EXCEPT !.at = "branchExists"], act)
    ELSE IF StepOf(rn) # NoStep THEN StepRaise(rn, act, error) ELSE Raise(rn, act, error)

\* An error thrown by an awaited call: inside the step loop's try it passes
\* through the loop's catch first.
Thrown(rn, act, error) ==
    IF StepOf(rn) # NoStep THEN StepRaise(rn, act, error) ELSE Raise(rn, act, error)

\* options.baseBranch || 'main'
BaseBranch(rn) == Or(Get(rn.options, "baseBranch"), "'main'")

\* The clock readings of the queue operations of a poll cycle.  Nothing in
\* processTask reads a task's timestamps, so the clock is left where it is.
RunReadings == {now}

\* handleAddTask while the worker is between two poll cycles.
RunAddTask ==
    \E d \in Descriptions, o \in RunOptionInputs, t \in RunReadings :
        /\ run.at = "idle"
        /\ Len(added) < MaxRuns
        /\ nextId' = nextId + 1
        /\ QueueCall("addTask", nextId, Some(o),
                     addTask(loadTasks(TRUE), d, o, nextId, t), t)
        /\ UNCHANGED runVars

\* processTask from its entry to its first await: a fresh task id, the branch
\* name, the activeTasks entry, then the plan request, or on multiStep false the
\* single-step path's code generation.
StartTask(task, taskId) ==
    LET branchName == Or(Get(task.options, "branchName"),
                         Str("feature/" \o TaskIdText(taskId)))
        shouldPlan == Get(task.options, "multiStep") # "false"
    IN  After([NoRun EXCEPT !.task = Some(task), !.taskId = taskId,
                            !.description = task.description,
                            !.branchName = branchName, !.options = task.options,
                            !.path = IF shouldPlan THEN "none" ELSE "single",
                            !.at = IF shouldPlan THEN "generatePlan" ELSE "generateCode"],
              [NoStatus EXCEPT !.status = "processing"])

\* processQueue: getNextTask; with no pending task the cycle ends, else the
\* task becomes the current task and processTask is called with a task id of
\* its own.
ProcessQueue ==
    \E t \in RunReadings :
        LET r == getNextTask(loadTasks(TRUE), t)
        IN  /\ run.at = "idle"
            /\ QueueCall("getNextTask", UnknownId, None, r, t)
            /\ IF r.ret = None
               THEN UNCHANGED <<nextId, runVars>>
               ELSE /\ run' = StartTask(r.ret[1], RunTaskId(Len(dequeued) + 1)).run
                    /\ active' = StartTask(r.ret[1], RunTaskId(Len(dequeued) + 1)).active
                    /\ calls' = << >>
                    /\ answer' = None
                    /\ UNCHANGED <<nextId, github, worker>>

\* A plan of one step or more taken to the multi-step path.
PlanReady_MultiFromOne(rn, act, plan) ==
    IF Len(plan.steps) >= 1
    THEN After([rn EXCEPT !.path = "multi", !.plan = Some(plan), !.at = "branchExists"],
               [act EXCEPT !.isMultiStep = TRUE, !.status = "in-progress"])
    ELSE After([rn EXCEPT !.path = "single", !.plan = Some(plan), !.at = "generateCode"],
               act)

\* plan.steps.length > 1 selects the multi-step path: the entry becomes
\* in-progress and the branch check is requested; otherwise the single-step
\* path requests its code generation.
PlanReady(rn, act, plan) ==
    IF Len(plan.steps) > 1
    THEN After([rn EXCEPT !.path = "multi", !.plan = Some(plan), !.at = "branchExists"],
               [act EXCEPT !.isMultiStep = TRUE, !.status = "in-progress"])
    ELSE After([rn EXCEPT !.path = "single", !.plan = Some(plan), !.at = "generateCode"],
               act)

\* generatePlan returned.
GeneratePlanDone ==
    \E response \in PlanResponses :
        LET r == generatePlan(run.description, response)
            entry == Logged("generatePlan", NoStep, r, response.kind)
        IN  /\ run.at = "generatePlan"
            /\ IF ~r.ok
               THEN Awaited(Raise(run, active, r.error), entry, github)
               ELSE Awaited(PlanReady(run, active, r.value), entry, github)

\* The context the single-step path gives to generateCode: the caller's
\* existingFiles and requirements as they are, undefined when absent.
SingleContext(options) ==
    [existingFiles |-> IF Get(options, "existingFiles") = Undefined THEN None
                       ELSE Some(ExistingFiles(Get(options, "existingFiles"))),
     requirements  |-> Get(options, "requirements")]

\* The context processStep gives to generateCode: always an object, the files
\* of the steps before with the caller's existingFiles spread over them.
StepContext(options, existingFiles) ==
    [existingFiles |-> Some(Assign(Assign(<< >>, existingFiles),
                                   ExistingFiles(Get(options, "existingFiles")))),
     requirements  |-> Get(options, "requirements")]

\* `${overallTaskDescription}\n\nCurrent step: ${step.description}`
StepDescription(overallTaskDescription, step) ==
    Str(Text(overallTaskDescription) \o "\n\nCurrent step: " \o Text(step.description))

\* The prompt of the generation request the run is waiting for.
PromptOf(rn) ==
    IF rn.path = "single"
    THEN UserPrompt(rn.description, SingleContext(rn.options))
    ELSE UserPrompt(StepDescription(rn.description, rn.plan[1].steps[rn.i + 1]),
                    StepContext(rn.options, rn.allFiles))

\* generateCode returned or threw.
GenerateCodeDone ==
    \E response \in CodeResponses :
        LET r == generateCode(response)
            entry == Logged("generateCode", StepOf(run), r,
                            [prompt |-> PromptOf(run), response |-> response.kind])
        IN  /\ run.at = "generateCode"
            /\ IF ~r.ok
               THEN Awaited(Thrown(run, active, r.error), entry, github)
               ELSE Awaited(After([run EXCEPT !.codeFiles = r.value,
                                              !.at = "saveCodeFiles"], active),
                            entry, github)

\* saveCodeFiles returned or threw: the single-step path goes on to the branch
\* check, a step to its commit message.
SaveCodeFilesDone ==
    \E fsOk \in BOOLEAN :
        LET r == saveCodeFiles(run.codeFiles, fsOk)
            entry == Logged("saveCodeFiles", StepOf(run), r, run.codeFiles)
        IN  /\ run.at = "saveCodeFiles"
            /\ IF ~r.ok
               THEN Awaited(Thrown(run, active, r.error), entry, github)
               ELSE Awaited(After([run EXCEPT !.savedFiles = r.value,
                                              !.at = IF run.path = "single"
                                                     THEN "branchExists"
                                                     ELSE "generateCommitMessage"],
                                  active),
                            entry, github)

\* Once the branch exists: the single-step path asks for the commit message,
\* the multi-step path enters its loop.
BranchReady(rn, act) ==
    IF rn.path = "single"
    THEN After([rn EXCEPT !.at = "generateCommitMessage"], act)
    ELSE EnterStep(rn, act, 0)

\* branchExists returned or threw: createBranch is called only for an absent
\* branch.
BranchExistsDone ==
    \E response \in BranchResponses :
        LET r == branchExists(run.branchName, response)
            entry == Logged("branchExists", NoStep, r, run.branchName)
        IN  /\ run.at = "branchExists"
            /\ IF ~r.ok
               THEN Awaited(Raise(run, active, r.error), entry, github)
               ELSE IF r.value
               THEN Awaited(BranchReady(run, active), entry, github)
               ELSE Awaited(After([run EXCEPT !.at = "createBranch"], active),
                            entry, github)

\* createBranch returned or threw.
CreateBranchDone ==
    \E attempt \in Attempts(github.useMcp) :
        LET r == createBranch(run.branchName, BaseBranch(run), attempt)
            entry == Logged("createBranch", NoStep, r,
                            [branch |-> run.branchName, base |-> BaseBranch(run)])
        IN  /\ run.at = "createBranch"
            /\ IF ~r.ok
               THEN Awaited(Raise(run, active, r.error), entry, github)
               ELSE Awaited(BranchReady(run, active), entry,
                            [github EXCEPT !.branches = @ \cup {run.branchName}])

\* generateCommitMessage returned.  On the single-step path the commit follows.
\* In a step this ends processStep: the step is marked completed with its
\* result, its files are accumulated, and then its commit is requested.
CommitMessageDone ==
    \E response \in MessageResponses :
        LET description == IF run.path = "single" THEN run.description
                           ELSE run.plan[1].steps[run.i + 1].description
            r == generateCommitMessage(description, response)
            entry == Logged("generateCommitMessage", StepOf(run), r, description)
            plan == [run.plan[1] EXCEPT
                         !.steps[run.i + 1].status = "completed",
                         !.steps[run.i + 1].result =
                             Some([files |-> run.savedFiles, commitMessage |-> r.value])]
        IN  /\ run.at = "generateCommitMessage"
            /\ IF ~r.ok
               THEN Answered(Thrown(run, active, r.error), entry, github, Some(response))
               ELSE IF run.path = "single"
               THEN Answered(After([run EXCEPT !.commitMessage = r.value,
                                              !.at = "createOrUpdateFiles"], active),
                            entry, github, Some(response))
               ELSE Answered(After([run EXCEPT !.commitMessage = r.value,
                                              !.plan = Some(plan),
                                              !.allFiles = @ \o run.savedFiles,
                                              !.at = "createOrUpdateFiles"], active),
                            entry, github, Some(response))

\* A pull request asked for after every commit.
WantsPullRequest_EveryStep(rn) == Get(rn.options, "createPR") # "false"

\* A pull request asked for when options.createPR is truthy.
WantsPullRequest_Truthy(rn) ==
    /\ ~Falsy(Get(rn.options, "createPR"))
    /\ rn.path = "multi" => (rn.i = 0 /\ rn.pr = None)

\* options.createPR !== false, and in a multi-step run only after the first
\* step's commit while no pull request is held.
WantsPullRequest(rn) ==
    /\ Get(rn.options, "createPR") # "false"
    /\ rn.path = "multi" => (rn.i = 0 /\ rn.pr = None)

\* A step loop that does not advance: the same step is entered again.
AfterStep_SameStep(rn, act) ==
    IF rn.path = "single" THEN ReturnSingle(rn, act) ELSE EnterStep(rn, act, rn.i)

\* After a commit or a pull request: the single-step path returns, the
\* multi-step path goes to the next step.
AfterStep(rn, act) ==
    IF rn.path = "single" THEN ReturnSingle(rn, act) ELSE EnterStep(rn, act, rn.i + 1)

\* createOrUpdateFiles returned or threw.
CreateOrUpdateFilesDone ==
    \E attempt \in Attempts(github.useMcp) :
        LET r == createOrUpdateFiles(run.branchName, run.savedFiles, run.commitMessage,
                                     attempt)
            entry == Logged("createOrUpdateFiles", StepOf(run), r,
                            [branch |-> run.branchName, files |-> run.savedFiles,
                             message |-> run.commitMessage])
        IN  /\ run.at = "createOrUpdateFiles"
            /\ IF ~r.ok
               THEN Awaited(Thrown(run, active, r.error), entry, github)
               ELSE IF WantsPullRequest(run)
               THEN Awaited(After([run EXCEPT !.at = "createPullRequest"], active),
                            entry, github)
               ELSE Awaited(AfterStep(run, active), entry, github)

\* createPullRequest returned or threw: the pull request's number and URL are
\* kept when the answer carries them.
CreatePullRequestDone ==
    \E attempt \in Attempts(github.useMcp),
       mcpResponse \in McpPullRequestResponses(github.prs + 1) :
        LET r == createPullRequest(attempt, mcpResponse, github.prs + 1)
            entry == Logged("createPullRequest", StepOf(run), r,
                            [head |-> run.branchName, base |-> BaseBranch(run)])
        IN  /\ run.at = "createPullRequest"
            /\ IF ~r.ok
               THEN Awaited(Thrown(run, active, r.error), entry, github)
               ELSE Awaited(AfterStep([run EXCEPT !.pr = PrOf(r.value)], active), entry,
                            [github EXCEPT !.prs = @ + 1])

\* The final generateCommitMessage of a multi-step run returned: processTask
\* returns its result to processQueue, which awaits completeTask.
FinalCommitMessageDone ==
    \E response \in MessageResponses :
        LET r == generateCommitMessage(run.description, response)
            entry == Logged("generateCommitMessage", NoStep, r, run.description)
        IN  /\ run.at = "finalCommitMessage"
            /\ IF ~r.ok
               THEN Answered(Raise(run, active, r.error), entry, github, Some(response))
               ELSE Answered(After([run EXCEPT
                                       !.at = "completeTask",
                                       !.result = Some(TaskResult(run, run.allFiles,
                                                                  r.value))],
                                  active),
                            entry, github, Some(response))

\* `Task ${taskId} not found in processing queue`
NotInProcessing(id) ==
    Error(Str("Task " \o TaskIdText(id) \o " not found in processing queue"))

\* completeTask(task.id, result) returned or threw: when it throws, processQueue's
\* catch awaits failTask; otherwise the cycle ends and currentTask is cleared.
CompleteTaskDone ==
    \E t \in RunReadings :
        LET id == run.task[1].id
            r == completeTask(loadTasks(TRUE), id, run.result[1], t)
        IN  /\ run.at = "completeTask"
            /\ QueueCall("completeTask", id, run.result, r, t)
            /\ run' = IF r.outcome = "ok"
                      THEN [run EXCEPT !.at = "idle", !.task = None]
                      ELSE [run EXCEPT !.at = "failTask",
                                       !.error = Some(NotInProcessing(id))]
            /\ answer' = None
            /\ UNCHANGED <<nextId, active, calls, github, worker>>

\* failTask(task.id, error) returned or threw: the cycle ends and currentTask is
\* cleared.
FailTaskDone ==
    \E t \in RunReadings :
        LET id == run.task[1].id
            r == failTask(loadTasks(TRUE), id, run.error[1], t)
        IN  /\ run.at = "failTask"
            /\ QueueCall("failTask", id, run.error, r, t)
            /\ run' = [run EXCEPT !.at = "idle", !.task = None]
            /\ answer' = None
            /\ UNCHANGED <<nextId, active, calls, github, worker>>

InitRun == InitQueue /\ \E useMcp \in BOOLEAN : github = Repository(useMcp)

NextRun ==
    \/ RunAddTask
    \/ ProcessQueue
    \/ GeneratePlanDone
    \/ GenerateCodeDone
    \/ SaveCodeFilesDone
    \/ BranchExistsDone
    \/ CreateBranchDone
    \/ CommitMessageDone
    \/ CreateOrUpdateFilesDone
    \/ CreatePullRequestDone
    \/ FinalCommitMessageDone
    \/ CompleteTaskDone
    \/ FailTaskDone

SpecRun == InitRun /\ [][NextRun]_vars

\* Every task of every partition of the store.
AllTasks(store) ==
    UNION {{store[p][i] : i \in 1..Len(store[p])} : p \in Partitions}

\* ------------------------------------ the same request twice in sequence
\* handleAddTask called a second time with the description and the options of
\* the first task, once the worker has processed that task; nothing is cleaned
\* up in between (the repository and the queue file are as the first run left
\* them).
RunAgain ==
    \E d \in Descriptions, o \in RunOptionInputs, t \in RunReadings :
        LET first == CHOOSE task \in AllTasks(file) : task.id = added[1]
        IN  /\ run.at = "idle"
            /\ Len(added) = 1 /\ Len(dequeued) = 1
            /\ d = first.description
            /\ JsonObject(addTaskOptions(o)) = first.options
            /\ nextId' = nextId + 1
            /\ QueueCall("addTask", nextId, Some(o),
                         addTask(loadTasks(TRUE), d, o, nextId, t), t)
            /\ UNCHANGED runVars

NextTwice == NextRun \/ RunAgain

SpecTwice == InitRun /\ [][NextTwice]_vars

\* --------------------------- one worker: start() and the ticks of its timer
\* One AgentWorker from its start() on.  start() awaits a first processQueue and
\* then installs the poll timer; every tick of the timer calls processQueue
\* again, whether or not an earlier call has returned.  processQueue tests
\* currentTask, awaits getNextTask, and only then sets currentTask.  Every queue
\* operation awaits its load and its save, and its save may fail.  processTask is
\* taken as a call that returns a result or throws.

\* start() after its first processQueue call: when the call returned, the poll
\* timer is installed and kept in pollTimer, whatever isRunning is by then; when
\* it threw, the error leaves start() and no timer is installed.
StartEnds(w, threw) ==
    IF threw THEN [w EXCEPT !.phase = "rejected"]
    ELSE [w EXCEPT !.phase = "running", !.pollTimer = TRUE, !.timers = @ + 1]

\* The worker after a processQueue call that ends without having set
\* currentTask.  An error of a call made by the timer is caught and logged there.
EndBeforeTry(w, c, threw) == IF c = "start" THEN StartEnds(w, threw) ELSE w

\* The worker after a processQueue call that ends after its try: the finally
\* block clears currentTask.
EndAfterTry(w, c, threw) == EndBeforeTry([w EXCEPT !.currentTask = None], c, threw)

\* The processQueue call c ends and leaves the worker as w.
PollEnds(c, w) ==
    /\ pc' = [pc EXCEPT ![c] = Idle]
    /\ worker' = w

\* What processQueue does when a queue operation it awaited returns or throws.
PollReturn(w, c, name, outcome, ret, cur) ==
    IF name = "getNextTask"
    THEN IF outcome = "IOError" THEN PollEnds(c, EndBeforeTry(w, c, TRUE))
         ELSE IF ret = None THEN PollEnds(c, EndBeforeTry(w, c, FALSE))
         ELSE /\ pc' = [pc EXCEPT ![c] = [at |-> "processing", cur |-> ret[1].id]]
              /\ worker' = [w EXCEPT !.currentTask = Some(ret[1].id)]
    ELSE IF name = "completeTask"
    THEN IF outcome = "ok" THEN PollEnds(c, EndAfterTry(w, c, FALSE))
         ELSE /\ pc' = [pc EXCEPT ![c] = [at |-> "catch", cur |-> cur]]
              /\ worker' = w
    ELSE PollEnds(c, EndAfterTry(w, c, outcome # "ok"))

\* A queue operation of the processQueue call c up to its saveTasks call, the
\* worker being w when it is called.
PollOp(w, c, name, arg, r, t, cur) ==
    /\ nops < MaxOps
    /\ nops' = nops + 1
    /\ now' = t
    /\ IF r.save
       THEN /\ pc' = [pc EXCEPT ![c] = [at |-> "saving", op |-> name, id |-> arg,
                                        r |-> r, cur |-> cur]]
            /\ worker' = w
            /\ UNCHANGED <<added, dequeued>>
       ELSE /\ PollReturn(w, c, name, r.outcome, r.ret, cur)
            /\ Returned(name, arg, r.outcome, r.ret)
    /\ UNCHANGED <<file, nextId, prev, last, onlyAddGet, run, active, calls, github, answer>>

\* start(): on a running worker it returns at once.  Otherwise isRunning is set
\* and the first processQueue call begins: with a current task it returns at
\* once, else it calls getNextTask.  While that call is under way start() has
\* not returned and no timer is installed.
WorkerStart ==
    \E t \in Readings :
        LET w == [worker EXCEPT !.isRunning = TRUE, !.phase = "starting"]
        IN  IF worker.isRunning THEN UNCHANGED vars
            ELSE /\ pc["start"].at = "idle"
                 /\ worker.timers < MaxTimers
                 /\ IF worker.currentTask # None
                    THEN /\ worker' = EndBeforeTry(w, "start", FALSE)
                         /\ UNCHANGED <<file, now, nextId, nops, prev, last, added,
                                        dequeued, onlyAddGet, pc, run, active, calls,
                                        github, answer>>
                    ELSE PollOp(w, "start", "getNextTask", UnknownId,
                                getNextTask(loadTasks(TRUE), t), t, UnknownId)

\* A tick of a poll timer while the worker is running and currentTask is null:
\* getNextTask is called.  (A tick on a stopped worker, or while currentTask is
\* set, returns at once.)
PollTick ==
    \E c \in Ticks, t \in Readings :
        /\ worker.timers > 0
        /\ worker.isRunning
        /\ pc[c].at = "idle"
        /\ worker.currentTask = None
        /\ PollOp(worker, c, "getNextTask", UnknownId, getNextTask(loadTasks(TRUE), t), t,
                  UnknownId)

\* processTask returned: completeTask(task.id, result) is called.
PollCompleteTask ==
    \E c \in Cycles, res \in ResultInputs, t \in Readings :
        /\ pc[c].at = "processing"
        /\ PollOp(worker, c, "completeTask", pc[c].cur,
                  completeTask(loadTasks(TRUE), pc[c].cur, res, t), t, pc[c].cur)

\* processTask or completeTask threw: failTask(task.id, error) is called.
PollFailTask ==
    \E c \in Cycles, e \in ErrorInputs, t \in Readings :
        /\ pc[c].at \in {"processing", "catch"}
        /\ PollOp(worker, c, "failTask", pc[c].cur,
                  failTask(loadTasks(TRUE), pc[c].cur, e, t), t, pc[c].cur)

\* The saveTasks of a processQueue call's operation writes the file or throws,
\* and the operation returns or throws.
PollSave(c, writeOk) ==
    LET outcome == IF writeOk THEN pc[c].r.outcome ELSE "IOError"
        ret == IF writeOk THEN pc[c].r.ret ELSE None
    IN  /\ pc[c].at = "saving"
        /\ file' = saveTasks(pc[c].r.tasks, writeOk)
        /\ PollReturn(worker, c, pc[c].op, outcome, ret, pc[c].cur)
        /\ Returned(pc[c].op, pc[c].id, outcome, ret)
        /\ UNCHANGED <<now, nextId, nops, prev, last, onlyAddGet,
                       run, active, calls, github, answer>>

PollSaveDone == \E c \in Cycles, writeOk \in BOOLEAN : PollSave(c, writeOk)

\* The API's addTask returns.
ApiSaveDone == pc["api"].at = "saving" /\ SaveDone

NextPoll ==
    \/ ApiAddTask
    \/ ApiSaveDone
    \/ WorkerStart
    \/ PollTick
    \/ PollCompleteTask
    \/ PollFailTask
    \/ PollSaveDone

SpecPoll == Init /\ [][NextPoll]_vars

\* ------------------------------------- the same worker, stopped and started again
\* stop(): on a worker that is not running it returns at once.  Otherwise
\* isRunning is cleared and the timer kept in pollTimer is cleared; a
\* processQueue call that is under way goes on, and stop() waits for it for a
\* fixed time at most.
WorkerStop ==
    IF ~worker.isRunning THEN UNCHANGED vars
    ELSE /\ worker' = [worker EXCEPT !.isRunning = FALSE,
                                     !.pollTimer = FALSE,
                                     !.timers = IF worker.pollTimer THEN @ - 1 ELSE @]
         /\ UNCHANGED <<file, now, nextId, nops, prev, last, added, dequeued, onlyAddGet,
                        pc, run, active, calls, github, answer>>

NextStop == NextPoll \/ WorkerStop

SpecStop == Init /\ [][NextStop]_vars

\* ------------------------- the worker's process: shutdown and a new process
\* index.ts on SIGINT or SIGTERM: `await worker.stop()` and then
\* process.exit(0).  stop() returns at once when currentTask is null, else
\* after its fixed wait, whether or not the processQueue call has ended.  The
\* exit ends every call of the process that is under way; the queue file stays
\* as it is.  A new process then constructs a new worker and starts it.  Here
\* the file is writable: every save succeeds.

\* process.exit(0) after stop() has returned, and the next process's
\* `new AgentWorker()`.
ProcessExit ==
    /\ ~worker.isRunning /\ worker.phase # "created"
    /\ pc' = [c \in DOMAIN pc |-> Idle]
    /\ worker' = NewWorker
    /\ UNCHANGED <<file, now, nextId, nops, prev, last, added, dequeued, onlyAddGet,
                   run, active, calls, github, answer>>

\* The saveTasks of a processQueue call's operation has written the file.
PollSaved == \E c \in Cycles : PollSave(c, TRUE)

\* processTask returns or throws, and processQueue calls completeTask or
\* failTask.
PollTaskEnds == PollCompleteTask \/ PollFailTask

NextExit ==
    \/ ApiAddTask
    \/ ApiSaveDone
    \/ WorkerStart
    \/ PollTick
    \/ PollTaskEnds
    \/ PollSaved
    \/ WorkerStop
    \/ ProcessExit

\* Capability calls and file operations that are under way end, and a worker
\* that can be started is started.
FairExit ==
    /\ WF_vars(PollTaskEnds)
    /\ WF_vars(PollSaved)
    /\ WF_vars(ApiSaveDone)
    /\ WF_vars(WorkerStart)

SpecExit == Init /\ [][NextExit]_vars /\ FairExit

\* ------------------------------ a new TaskQueue: ensureQueueFile and addTask
\* The constructor calls ensureQueueFile without awaiting it: mkdir of the
\* file's directory, access of the file, and for an absent file a write of four
\* empty partitions.  The caller's addTask runs while these are under way.

\* The queue file while it does not exist.
Absent == << >>

\* A task an earlier run of the program left pending in the file.
EarlierTask ==
    addTask(EmptyStore, "'hello world page'", << >>, MaxTasks + 1, 0).tasks.pending[1]

\* The file when the TaskQueue is constructed: absent, in a directory that
\* exists or not, or written by an earlier run.
InitNew ==
    /\ file \in {Absent, EmptyStore, JsonStore([EmptyStore EXCEPT !.pending = <<EarlierTask>>])}
    /\ prev = EmptyStore
    /\ \E dir \in BOOLEAN :
           /\ file # Absent => dir
           /\ pc = [c \in Clients \cup Cycles \cup {"ensure"} |->
                        IF c = "ensure" THEN [at |-> "mkdir", dir |-> dir] ELSE Idle]
    /\ InitCalls
    /\ run = NoRun
    /\ active = NoStatus
    /\ calls = << >>
    /\ answer = None
    /\ github = Repository(FALSE)

\* A step of ensureQueueFile leaves everything but the file and its own place.
EnsureStep(at) ==
    /\ pc' = [pc EXCEPT !["ensure"] = [at |-> at, dir |-> TRUE]]
    /\ UNCHANGED <<now, nextId, nops, prev, last, added, dequeued, onlyAddGet>>
    /\ UNCHANGED runVars

\* fs.mkdir(queueDir, { recursive: true }) returned.
EnsureMkdir ==
    /\ pc["ensure"].at = "mkdir"
    /\ EnsureStep("access")
    /\ UNCHANGED file

\* fs.access(queueFile) returned, or threw for a file that is not there.
EnsureAccess ==
    /\ pc["ensure"].at = "access"
    /\ EnsureStep(IF file = Absent THEN "writeFile" ELSE "done")
    /\ UNCHANGED file

\* fs.writeFile(queueFile, four empty partitions) returned.
EnsureWriteFile ==
    /\ pc["ensure"].at = "writeFile"
    /\ EnsureStep("done")
    /\ file' = EmptyStore

\* addTask on the new TaskQueue, to its save: readFile throws for an absent
\* file and loadTasks returns four empty partitions.
NewAddTask ==
    \E d \in Descriptions, o \in OptionInputs, t \in Readings :
        /\ pc["api"].at = "idle"
        /\ nextId <= MaxTasks
        /\ nextId' = nextId + 1
        /\ Start("api", "addTask", nextId,
                 addTask(loadTasks(file # Absent), d, o, nextId, t), t, UnknownId)

\* addTask's saveTasks: writeFile creates or replaces the file; in a directory
\* that does not exist it throws, and addTask throws.
NewSaveDone ==
    LET writeOk == pc["ensure"].dir
        outcome == IF writeOk THEN pc["api"].r.outcome ELSE "IOError"
        ret == IF writeOk THEN pc["api"].r.ret ELSE None
    IN  /\ pc["api"].at = "saving"
        /\ file' = saveTasks(pc["api"].r.tasks, writeOk)
        /\ pc' = [pc EXCEPT !["api"] = Idle]
        /\ Returned(pc["api"].op, pc["api"].id, outcome, ret)
        /\ UNCHANGED <<now, nextId, nops, prev, last, onlyAddGet>>
        /\ UNCHANGED runVars

NextNew ==
    \/ EnsureMkdir
    \/ EnsureAccess
    \/ EnsureWriteFile
    \/ NewAddTask
    \/ NewSaveDone

SpecNew == InitNew /\ [][NextNew]_vars

\* ------------------------------- GitHubClient's operations, request by request
\* A call of one of GitHubClient's operations, with the outcome of the MCP tool
\* call and of the direct API's requests drawn from what they can be.  The log
\* keeps the requests the operation made and whether it returned.
GitHubCall ==
    \E name \in McpOperations, mcp \in McpOutcomes, failAt \in 0..MaxRequests :
        LET r == GitHubOperation(name, github.useMcp, mcp, failAt)
        IN  /\ Len(calls) < MaxGitHubCalls
            /\ failAt <= Len(ApiRequests(name))
            /\ calls' = Append(calls, [call |-> name, sent |-> r.sent, ok |-> r.result.ok,
                                       result |-> r.result])
            /\ UNCHANGED <<file, now, nextId, nops, prev, last, added, dequeued,
                           onlyAddGet, pc, run, active, github, answer, worker>>

NextGitHub == GitHubCall

SpecGitHub == InitRun /\ [][NextGitHub]_vars

\* ------------------------------------------------------------------ claims
\* The ids of the tasks of a partition, in order.
Ids(s) == [i \in 1..Len(s) |-> s[i].id]

\* The number of places of the store that hold a task with this id.
Occurrences(store, id) ==
    Cardinality({x \in UNION {{<<p, i>> : i \in 1..Len(store[p])} : p \in Partitions} :
                    store[x[1]][x[2]].id = id})

\* The task removed from position i of partition from and appended to partition to
\* as task moved; the other two partitions are as they were.
Moved(from, to, i, moved) ==
    /\ file[from] = Splice(prev[from], i)
    /\ file[to] = Append(prev[to], moved)
    /\ \A p \in Partitions \ {from, to} : file[p] = prev[p]

\* C1: after any sequence of queue operations run one at a time, every id addTask
\* has returned is in exactly one of the four partitions of the persisted store.
C1_PartitionExclusivity ==
    \A i \in 1..Len(added) : Occurrences(file, added[i]) = 1

C1_Witness ==
    /\ Len(added) = 2
    /\ Len(file.completed) = 1
    /\ Len(file.pending) = 1

\* C4: while only addTask and getNextTask have been called, the tasks getNextTask
\* returned are the added tasks in the order they were added (what it has not
\* returned yet is still pending, in that order), each call returns the head of
\* pending, and it returns none exactly when pending is empty.
C4_FifoDequeue ==
    onlyAddGet =>
        /\ dequeued \o Ids(file.pending) = added
        /\ Ids(file.processing) = dequeued
        /\ last.op = "getNextTask" =>
              IF Len(prev.pending) = 0
              THEN last.outcome = "none" /\ last.ret = None /\ file = prev
              ELSE /\ last.outcome = "ok"
                   /\ last.ret[1].id = prev.pending[1].id
                   /\ last.ret[1].status = "processing"
                   /\ last.ret[1].startedAt = now

C4_Witness ==
    /\ onlyAddGet
    /\ Len(dequeued) = 2
    /\ dequeued = added
    /\ dequeued[1] # dequeued[2]

\* C5: completeTask fails with NotFound and changes no partition when the id is not
\* in processing; otherwise it moves the task from processing to the tail of
\* completed with status completed, completedAt set and the result attached.
C5_CompleteTask ==
    last.op = "completeTask" =>
        LET i == FindIndex(prev.processing, last.id)
        IN  IF i = 0
            THEN last.outcome = "NotFound" /\ file = prev
            ELSE /\ last.outcome = "ok"
                 /\ Moved("processing", "completed", i,
                          [prev.processing[i] EXCEPT !.status = "completed",
                                                     !.completedAt = now,
                                                     !.result = last.input])
                 /\ file.completed[Len(file.completed)].result # None
                 /\ file.completed[Len(file.completed)].completedAt # NoTime

C5_Witness ==
    /\ last.op = "completeTask"
    /\ last.outcome = "NotFound"
    /\ FindIndex(file.completed, last.id) # 0

\* C6: failTask moves the task to the tail of failed from processing if it is there,
\* otherwise from pending if it is there, with status failed, failedAt and the error
\* text; otherwise it fails with NotFound and changes no partition.
C6_FailTask ==
    last.op = "failTask" =>
        LET i == FindIndex(prev.processing, last.id)
            j == FindIndex(prev.pending, last.id)
            text == IF last.input[1].kind = "Error"
                    THEN last.input[1].message ELSE last.input[1].value
        IN  IF i # 0
            THEN /\ last.outcome = "ok"
                 /\ Moved("processing", "failed", i,
                          [prev.processing[i] EXCEPT !.status = "failed",
                                                     !.failedAt = now, !.error = text])
            ELSE IF j # 0
            THEN /\ last.outcome = "ok"
                 /\ Moved("pending", "failed", j,
                          [prev.pending[j] EXCEPT !.status = "failed",
                                                  !.failedAt = now, !.error = text])
            ELSE last.outcome = "NotFound" /\ file = prev

C6_Witness ==
    /\ last.op = "failTask"
    /\ last.outcome = "NotFound"
    /\ FindIndex(file.failed, last.id) # 0
    /\ file.failed[FindIndex(file.failed, last.id)].startedAt = NoTime

\* What C7 says of a successful retryTask, but for the age of createdAt.
RetryRoundTrip(old, new) ==
    /\ FindIndex(file.failed, last.id) = 0
    /\ file.failed = Splice(prev.failed, FindIndex(prev.failed, last.id))
    /\ Ids(file.pending) = Append(Ids(prev.pending), last.id)
    /\ new.status = "pending"
    /\ new.error = Undefined
    /\ new.failedAt = NoTime
    /\ new.startedAt = NoTime
    /\ new.completedAt = NoTime
    /\ new.result = None
    /\ new.id = old.id
    /\ new.description = old.description
    /\ new.options = old.options

\* C7 as claimed: after a successful retryTask the task is at the tail of pending,
\* reset, with id, description and options unchanged, and its createdAt is later
\* than it was before the retry.
C7_RetryCreatedAtLater ==
    (last.op = "retryTask" /\ last.outcome = "ok") =>
        LET old == prev.failed[FindIndex(prev.failed, last.id)]
            new == file.pending[Len(file.pending)]
        IN  RetryRoundTrip(old, new) /\ new.createdAt > old.createdAt

\* C7 as amended: the same, with createdAt the clock reading taken by the retry,
\* which is not earlier than it was before the retry (and can be equal to it).
C7_RetryRoundTrip ==
    (last.op = "retryTask" /\ last.outcome = "ok") =>
        LET old == prev.failed[FindIndex(prev.failed, last.id)]
            new == file.pending[Len(file.pending)]
        IN  RetryRoundTrip(old, new) /\ new.createdAt = now /\ new.createdAt >= old.createdAt

C7_Witness ==
    /\ last.op = "retryTask"
    /\ last.outcome = "ok"
    /\ prev.failed[FindIndex(prev.failed, last.id)].startedAt # NoTime
    /\ file.pending[Len(file.pending)].createdAt
          > prev.failed[FindIndex(prev.failed, last.id)].createdAt

\* C8: retryTask of an id that is not in the failed partition fails with NotFound
\* and changes no partition.
C8_RetryNotFound ==
    (last.op = "retryTask" /\ FindIndex(prev.failed, last.id) = 0) =>
        last.outcome = "NotFound" /\ file = prev

C8_Witness ==
    /\ last.op = "retryTask"
    /\ last.outcome = "NotFound"
    /\ FindIndex(file.completed, last.id) # 0

\* C9: the task addTask creates has status pending and is at the tail of pending;
\* its options.createPR is true unless the caller passed exactly false, and its
\* options.baseBranch is 'main' unless the caller supplied one.
C9_AddTaskDefaults ==
    (last.op = "addTask" /\ last.outcome = "ok") =>
        LET o == last.input[1]
            task == file.pending[Len(file.pending)]
        IN  /\ Ids(file.pending) = Append(Ids(prev.pending), last.id)
            /\ task.status = "pending"
            /\ last.ret[1].status = "pending"
            /\ Get(task.options, "createPR")
                  = (IF Get(o, "createPR") = "false" THEN "false" ELSE "true")
            /\ Get(task.options, "baseBranch")
                  = (IF "baseBranch" \in DOMAIN o THEN o.baseBranch ELSE "'main'")

\* C10: a mutating operation during which reading or writing the file failed ends
\* with an I/O error and leaves the persisted tasks as they were.
C10_IoFailurePropagates ==
    last.fault # "none" => (last.outcome = "IOError" /\ file = prev)

\* C2: with the API and the workers interleaving their loads and saves, every task
\* addTask has returned is in exactly one partition of the persisted store.
C2_ConcurrentExclusivity ==
    \A id \in {added[i] : i \in 1..Len(added)} : Occurrences(file, id) = 1

\* A getNextTask call of worker w that has loaded the file and not yet returned.
Dequeuing(w) == pc[w].at = "saving" /\ pc[w].op = "getNextTask"

\* C3: two getNextTask calls running at the same time do not return the same task.
C3_NoDoubleDequeue ==
    \A w1 \in Workers, w2 \in Workers :
        (w1 # w2 /\ Dequeuing(w1) /\ Dequeuing(w2))
            => pc[w1].r.ret[1].id # pc[w2].r.ret[1].id

\* C11: in every reachable state of the store a task carries a result only if
\* its status is completed, and carries an error only if its status is failed.
C11_ResultErrorByStatus ==
    \A task \in AllTasks(file) :
        /\ task.result # None => task.status = "completed"
        /\ task.error # Undefined => task.status = "failed"

\* A failed task was retried: it is pending again and carries no error.
C11_Witness ==
    /\ last.op = "retryTask" /\ last.outcome = "ok"
    /\ \E i \in 1..Len(prev.failed) :
           /\ prev.failed[i].id = last.id
           /\ prev.failed[i].error # Undefined
    /\ \E task \in AllTasks(file) :
           task.id = last.id /\ task.status = "pending" /\ task.error = Undefined

\* ------------------------------------------------------- claims on the run
\* The steps of the run's plan.
Steps == run.plan[1].steps

\* Step k (counted from 0) has a dependency that names no completed step.
HasUnmetDependency(k) ==
    \E d \in 1..Len(Steps[k + 1].dependencies) :
        ~DependencyMet(Steps, Steps[k + 1].dependencies[d])

\* The task the worker dequeued last, in the partition it is in.
DurableTasks(p) ==
    {file[p][n] : n \in {m \in 1..Len(file[p]) : file[p][m].id = dequeued[Len(dequeued)]}}

\* C12: in a multi-step run, when a step is reached while one of its
\* dependencies names a step that is not completed (an unknown id, the step
\* itself or a later step), the run fails with the unmet-dependencies error, no
\* call is made for that step or any later one, and they all stay pending.
C12_UnmetDependency ==
    (run.path = "multi" /\ run.i # NoStep /\ run.i < Len(Steps)
     /\ HasUnmetDependency(run.i)) =>
        /\ run.at \in {"failTask", "idle"}
        /\ run.error = Some(Error(Str("Step " \o Text(Steps[run.i + 1].id)
                                      \o " has unmet dependencies: "
                                      \o Join(Steps[run.i + 1].dependencies))))
        /\ run.result = None
        /\ \A p \in 1..Len(calls) : calls[p].step < run.i
        /\ \A j \in (run.i + 1)..Len(Steps) : Steps[j].status = "pending"

\* The second step of a plan names an unknown step: the first step was committed,
\* the run failed at the second and the task was recorded failed.
C12_Witness ==
    /\ run.at = "idle" /\ run.path = "multi" /\ run.i = 1
    /\ HasUnmetDependency(1)
    /\ Steps[1].status = "completed"
    /\ \E p \in 1..Len(calls) :
           calls[p].call = "createOrUpdateFiles" /\ calls[p].step = 0 /\ calls[p].ok
    /\ \E task \in DurableTasks("failed") :
           task.error = "'Step step-2 has unmet dependencies: step-1, step-9'"

\* C13: a plan of exactly one step is run on the single-step path and the
\* in-memory status is never in-progress during that run; a plan of two or more
\* steps is run on the multi-step path, where the plan's currentStepIndex never
\* goes down.
C13_PathByPlanSize ==
    /\ [](run.plan # None =>
             /\ Len(Steps) = 1 => (run.path = "single" /\ active.status # "in-progress")
             /\ Len(Steps) >= 2 => run.path = "multi")
    /\ [][(run.plan # None /\ run'.plan # None /\ run'.taskId = run.taskId) =>
              run'.plan[1].currentStepIndex >= run.plan[1].currentStepIndex]_vars

\* A three-step plan ran to its end on the multi-step path: currentStepIndex went
\* from 0 to 2.
C13_Witness ==
    /\ run.at = "idle" /\ run.path = "multi" /\ run.result # None
    /\ Len(Steps) = 3
    /\ Steps[3].status = "completed"
    /\ run.plan[1].currentStepIndex = 2

\* The places of the log that hold a call of this name made for step k.
Positions(name, k) ==
    {p \in 1..Len(calls) : calls[p].call = name /\ calls[p].step = k}

\* Step k's commit has succeeded.
Committed(k) == \E p \in Positions("createOrUpdateFiles", k) : calls[p].ok

\* C14: in a multi-step run the steps are executed and committed in plan order,
\* one at a time: code generation for a step starts only after the step before
\* it was committed, a step is committed at most once, commits follow the plan
\* order, and at most one step is in-progress.
C14_StepsInOrder ==
    run.path = "multi" =>
        /\ Cardinality({j \in 1..Len(Steps) : Steps[j].status = "in-progress"}) <= 1
        /\ (run.at = "generateCode" /\ run.i > 0) => Committed(run.i - 1)
        /\ \A p \in 1..Len(calls) :
               (calls[p].call = "generateCode" /\ calls[p].step > 0) =>
                   \E q \in Positions("createOrUpdateFiles", calls[p].step - 1) :
                       q < p /\ calls[q].ok
        /\ \A k \in 0..(Len(Steps) - 1) :
               Cardinality(Positions("createOrUpdateFiles", k)) <= 1
        /\ \A p, q \in 1..Len(calls) :
               (p < q /\ calls[p].call = "createOrUpdateFiles"
                      /\ calls[q].call = "createOrUpdateFiles") =>
                   calls[p].step < calls[q].step

\* The third step's code is being generated after the first two steps were
\* committed, in that order.
C14_Witness ==
    /\ run.path = "multi" /\ run.at = "generateCode" /\ run.i = 2
    /\ Steps[3].status = "in-progress"
    /\ Committed(0) /\ Committed(1)
    /\ \A p \in Positions("createOrUpdateFiles", 0),
          q \in Positions("createOrUpdateFiles", 1) : p < q

\* The places of the log that hold a createPullRequest call.
PullRequestCalls == {p \in 1..Len(calls) : calls[p].call = "createPullRequest"}

\* C15: in a run the review request is opened at most once and only after a
\* commit has succeeded; in a multi-step run it is opened right after the first
\* step's commit, before the second step starts, and never at a later step.
C15_ReviewRequestOnce ==
    /\ Cardinality(PullRequestCalls) <= 1
    /\ \A p \in PullRequestCalls :
           /\ p > 1
           /\ calls[p - 1].call = "createOrUpdateFiles" /\ calls[p - 1].ok
           /\ run.path = "multi" =>
                  /\ calls[p].step = 0
                  /\ calls[p - 1].step = 0
                  /\ \A q \in 1..(p - 1) : calls[q].step <= 0
    /\ run.at = "createPullRequest" =>
           /\ calls # << >>
           /\ calls[Len(calls)].call = "createOrUpdateFiles" /\ calls[Len(calls)].ok
           /\ run.path = "multi" =>
                  (run.i = 0 /\ \A j \in 2..Len(Steps) : Steps[j].status = "pending")

\* In a multi-step run the review request was opened after the first step's
\* commit, and the second step is now being generated.
C15_Witness ==
    /\ run.path = "multi" /\ run.at = "generateCode" /\ run.i = 1
    /\ \E p \in PullRequestCalls : calls[p].ok /\ p = Len(calls)
    /\ github.prs = 1

\* C16: in a multi-step run, when a call made for step k fails (generation,
\* saving, commit or review request), step k ends failed with the error's
\* message on it, every later step stays pending and no call is made for it, and
\* the run raises: the entry is failed, no result is returned, and the durable
\* task ends in the failed partition.
C16_StepFailure ==
    \A p \in 1..Len(calls) :
        (run.path = "multi" /\ ~calls[p].ok /\ calls[p].step # NoStep) =>
            LET k == calls[p].step
            IN  /\ p = Len(calls)
                /\ Steps[k + 1].status = "failed"
                /\ Steps[k + 1].error = calls[p].error[1].message
                /\ \A j \in (k + 2)..Len(Steps) : Steps[j].status = "pending"
                /\ \A q \in 1..Len(calls) : calls[q].step <= k
                /\ run.error = calls[p].error
                /\ run.result = None
                /\ active.status = "failed"
                /\ run.at \in {"failTask", "idle"}
                /\ run.at = "idle" =>
                       /\ DurableTasks("failed") # {}
                       /\ \A task \in DurableTasks("failed") :
                              task.error = calls[p].error[1].message

\* The commit of the second of three steps failed: the first step is completed,
\* the second failed, the third pending, and the task was recorded failed.
C16_Witness ==
    /\ run.at = "idle" /\ run.path = "multi" /\ Len(Steps) = 3
    /\ calls[Len(calls)].call = "createOrUpdateFiles"
    /\ calls[Len(calls)].step = 1 /\ ~calls[Len(calls)].ok
    /\ Steps[1].status = "completed"
    /\ Steps[2].status = "failed"
    /\ Steps[3].status = "pending"
    /\ DurableTasks("failed") # {}

\* C17: whenever processTask has raised, on either path, the in-memory entry has
\* status failed, the raised error's message and an end time, and the error
\* processQueue catches and hands to failTask is the error that was thrown.
C17_RaiseMarksFailed ==
    run.error # None =>
        /\ active.status = "failed"
        /\ active.error = run.error[1].message
        /\ active.ended
        /\ (calls # << >> /\ ~calls[Len(calls)].ok) =>
               run.error = calls[Len(calls)].error
        /\ last.op = "failTask" => last.input = run.error

\* A step of a multi-step run failed in code generation: the entry carries the
\* thrown message itself, and failTask was given the thrown error.
C17_Witness ==
    /\ run.path = "multi" /\ run.at = "idle" /\ last.op = "failTask"
    /\ calls[Len(calls)].call = "generateCode" /\ ~calls[Len(calls)].ok
    /\ run.error = Some(Error("'Failed to generate code: API rate limit exceeded'"))
    /\ active.error = "'Failed to generate code: API rate limit exceeded'"
    /\ active.status = "failed"

\* The calls whose failure fails the run: code generation and the saving of its
\* files, the branch check, the branch creation, a commit, the review request.
FailingCalls ==
    {"generateCode", "saveCodeFiles", "branchExists", "createBranch",
     "createOrUpdateFiles", "createPullRequest"}

\* C18: a failed code generation, branch check, branch creation, commit or
\* review request is the last call of its run (it is not made again and nothing
\* is called in its place); the run raises its error, the worker calls failTask
\* for the dequeued task, and the durable task ends in the failed partition, and
\* in no other, with the error's message.
C18_FailureFailsTask ==
    \A p \in 1..Len(calls) :
        (~calls[p].ok /\ calls[p].call \in FailingCalls) =>
            /\ p = Len(calls)
            /\ run.error = calls[p].error
            /\ run.result = None
            /\ run.at \in {"failTask", "idle"}
            /\ run.at = "failTask" => run.task[1].id = dequeued[Len(dequeued)]
            /\ run.at = "idle" =>
                   /\ \E task \in DurableTasks("failed") :
                          /\ task.status = "failed"
                          /\ task.error = calls[p].error[1].message
                          /\ task.result = None
                   /\ \A q \in Partitions \ {"failed"} : DurableTasks(q) = {}

\* On the single-step path the review request failed after the commit: the task
\* is in the failed partition with the message of that failure.
C18_Witness ==
    /\ run.path = "single" /\ run.at = "idle"
    /\ calls[Len(calls)].call = "createPullRequest" /\ ~calls[Len(calls)].ok
    /\ calls[Len(calls) - 1].call = "createOrUpdateFiles" /\ calls[Len(calls) - 1].ok
    /\ \E task \in DurableTasks("failed") :
           task.error = "'Failed to create pull request: Validation Failed'"

\* A poll cycle has ended for a task that asked for a review request (createPR
\* not false); every call of the run returned, and the branch check answered
\* that the branch was absent.
AllCallsSucceeded ==
    /\ run.at = "idle" /\ run.taskId # UnknownId
    /\ Get(run.options, "createPR") # "false"
    /\ \A p \in 1..Len(calls) : calls[p].ok
    /\ \E p \in 1..Len(calls) :
           calls[p].call = "branchExists" /\ calls[p].value = Some(FALSE)

\* The branch was created from the base branch, the files were committed, a
\* review request was opened, and the durable task is in the completed
\* partition with the review request's number in result.pr.
CompletedWithPullRequest ==
    /\ \E p \in 1..Len(calls) :
           /\ calls[p].call = "createBranch"
           /\ calls[p].detail = [branch |-> run.branchName, base |-> BaseBranch(run)]
    /\ run.branchName \in github.branches
    /\ \E p \in 1..Len(calls) : calls[p].call = "createOrUpdateFiles"
    /\ PullRequestCalls # {}
    /\ \E task \in DurableTasks("completed") :
           /\ task.status = "completed"
           /\ task.result # None
           /\ task.result[1].pr # None
           /\ task.result[1].pr[1].number = github.prs

\* C19 as stated: when a task with createPR not false is dequeued, every
\* capability call succeeds and the branch is reported absent, the branch is
\* created from the base branch, the files are committed, a review request is
\* opened and the durable task ends completed with result.pr.number set.
C19_AllCallsSucceed == AllCallsSucceeded => CompletedWithPullRequest

\* Every dependency of every step of the plan names an earlier step.
DependenciesOnEarlierSteps ==
    run.plan # None =>
        \A k \in 1..Len(Steps) :
            \A d \in 1..Len(Steps[k].dependencies) :
                FindIndex(Steps, Steps[k].dependencies[d]) \in 1..(k - 1)

\* The answer to the review request carries a pr object with number and
\* html_url.
PullRequestReturned ==
    \A p \in PullRequestCalls : calls[p].value[1].pr # None

\* C19, amended: the same, provided that in a plan of several steps every
\* dependency names an earlier step, and that the answer to the review request
\* carries the pull request's number and URL.
C19_CompletedWithPullRequest ==
    (AllCallsSucceeded /\ DependenciesOnEarlierSteps /\ PullRequestReturned) =>
        CompletedWithPullRequest

\* A two-step task ran to its end with every call succeeding: branch created,
\* both steps committed, review request number 1 in the completed task.
C19_Witness ==
    /\ AllCallsSucceeded /\ DependenciesOnEarlierSteps /\ PullRequestReturned
    /\ run.path = "multi" /\ Len(Steps) = 2
    /\ Committed(0) /\ Committed(1)
    /\ \E task \in DurableTasks("completed") : task.result[1].pr[1].number = 1

\* C20: generatePlan never raises; when the planning service errors or returns
\* no parsed content, the plan it returns has exactly one step, pending, with
\* the task's description, order 1 and no dependencies, and currentStepIndex 0,
\* and the run goes on to generate the task's code on the single-step path.
C20_PlanFallback ==
    \A p \in 1..Len(calls) :
        calls[p].call = "generatePlan" =>
            /\ calls[p].ok
            /\ calls[p].detail \in {"error", "noParsed"} =>
                   LET plan == calls[p].value[1]
                   IN  /\ Len(plan.steps) = 1
                       /\ plan.steps[1].description = run.description
                       /\ plan.steps[1].order = 1
                       /\ plan.steps[1].dependencies = << >>
                       /\ plan.steps[1].status = "pending"
                       /\ plan.currentStepIndex = 0
                       /\ run.path = "single"
                       /\ p = Len(calls) =>
                              (run.at = "generateCode" /\ run.error = None
                               /\ active.status = "processing")

\* The planning service errored, and the task was still carried out: it is in
\* the completed partition.
C20_Witness ==
    /\ run.at = "idle" /\ calls # << >>
    /\ calls[1].call = "generatePlan" /\ calls[1].detail = "error"
    /\ run.plan = Some(FallbackPlan("'hello world page'"))
    /\ DurableTasks("completed") # {}

\* A text of white space only (the empty text included).
Blank(text) == \A k \in 1..Len(text) : SubSeq(text, k, k) \in WhiteSpace

\* message is content without the white space around it.
IsTrimmed(content, message) ==
    /\ \E a \in 0..Len(Text(content)), b \in 0..Len(Text(content)) :
           /\ a <= b
           /\ Blank(SubSeq(Text(content), 1, a))
           /\ Text(message) = SubSeq(Text(content), a + 1, b)
           /\ Blank(SubSeq(Text(content), b + 1, Len(Text(content))))
    /\ Text(message) # "" =>
           /\ SubSeq(Text(message), 1, 1) \notin WhiteSpace
           /\ SubSeq(Text(message), Len(Text(message)), Len(Text(message))) \notin WhiteSpace

\* The commit-message capability failed or returned empty content.
FailedOrEmpty(response) ==
    \/ response.kind \in {"error", "noChoices"}
    \/ response.kind = "parsed" /\ response.content \in {"null", "''"}

\* C21: generateCommitMessage never raises.  When the commit-message capability
\* fails or returns empty content the message returned is "feat: " followed by
\* the description it was given; otherwise it is the capability's text without
\* the white space around it.  The run goes on after the call: neither the step
\* nor the task is failed by it.
C21_CommitMessageFallback ==
    answer # None =>
        LET e == calls[Len(calls)]
        IN  /\ e.call = "generateCommitMessage"
            /\ e.ok
            /\ IF FailedOrEmpty(answer[1])
               THEN e.value = Some("'feat: " \o Text(e.detail) \o "'")
               ELSE IsTrimmed(answer[1].content, e.value[1])
            /\ run.at \in {"createOrUpdateFiles", "completeTask"}
            /\ active.status # "failed"
            /\ run.path = "multi" /\ run.at = "createOrUpdateFiles" =>
                   run.plan[1].steps[run.i + 1].status = "completed"

\* A step of a multi-step run whose commit-message request failed goes on to its
\* commit with the fallback message.
C21_Witness ==
    /\ answer = Some(Failure)
    /\ run.path = "multi" /\ run.at = "createOrUpdateFiles" /\ run.i = 1
    /\ run.commitMessage = "'feat: style the page'"
    /\ active.status = "in-progress"

\* The positions of the log holding a call of this name, whatever its step.
CallsOf(name) == {p \in 1..Len(calls) : calls[p].call = name}

\* The base branch of the run's task: options.baseBranch, 'main' without one.
TaskBaseBranch ==
    IF "baseBranch" \in DOMAIN run.options /\ ~Falsy(run.options.baseBranch)
    THEN run.options.baseBranch ELSE "'main'"

\* A branch is created only when the repository does not hold it.
CreatesAbsentBranch ==
    (/\ Len(calls') = Len(calls) + 1
     /\ calls'[Len(calls')].call = "createBranch"
     /\ calls'[Len(calls')].ok)
        => /\ calls'[Len(calls')].detail.branch \notin github.branches
           /\ calls'[Len(calls')].detail.branch \in github'.branches

InFlight ==
    {c \in Cycles : \/ pc[c].at \in {"processing", "catch"}
                    \/ pc[c].at = "saving" /\ pc[c].op \in {"completeTask", "failTask"}}

\* C23: for one worker instance at most one task is in flight at any time: no
\* processQueue call holds a dequeued task while another call's task has not
\* yet been recorded completed or failed.
C23_OneTaskInFlight == Cardinality(InFlight) <= 1

\* C24: no error escapes start(): whatever fails in a poll cycle, start() returns
\* and the poll timer is installed, so that the worker keeps polling.
C24_NoErrorEscapesStart == worker.phase # "rejected"

\* The run has called createPullRequest.
ReviewRequested == run.at = "createPullRequest" \/ PullRequestCalls # {}

\* options.createPR is exactly false.
CreatePRFalse == "createPR" \in DOMAIN run.options /\ run.options.createPR = "false"

\* The first commit of the run has succeeded.
FirstCommitSucceeded ==
    \E p \in CallsOf("createOrUpdateFiles") :
        /\ calls[p].ok
        /\ \A q \in CallsOf("createOrUpdateFiles") : p <= q

\* C25: a run calls createPullRequest if and only if options.createPR is not
\* exactly false and the run's first commit has succeeded.  With createPR false
\* the call is never made, and neither the result processTask returns nor the
\* result recorded on the durable task carries a review reference.
C25_ReviewRequestIffWanted ==
    /\ ReviewRequested <=> (~CreatePRFalse /\ FirstCommitSucceeded)
    /\ CreatePRFalse =>
           /\ ~ReviewRequested
           /\ run.pr = None /\ active.pr = None
           /\ run.result # None => run.result[1].pr = None
           /\ \A task \in DurableTasks("completed") : task.result[1].pr = None

\* A multi-step run with createPR false has committed its steps, returned and
\* been recorded completed without a review request.
C25_Witness ==
    /\ run.at = "idle" /\ run.path = "multi"
    /\ CreatePRFalse
    /\ Cardinality(CallsOf("createOrUpdateFiles")) = 2
    /\ \A p \in CallsOf("createOrUpdateFiles") : calls[p].ok
    /\ PullRequestCalls = {}
    /\ DurableTasks("completed") # {}

\* The task of this id in the store.
TaskOf(store, id) == CHOOSE task \in AllTasks(store) : task.id = id

TimeFields == {"createdAt", "startedAt", "completedAt", "failedAt"}

\* The step is a successful operation of this name on this task.
StepIs(name, id) ==
    /\ last'.op = name /\ last'.outcome = "ok"
    /\ IF name = "getNextTask" THEN last'.ret[1].id = id ELSE last'.id = id

\* What one step does to the timestamps of the tasks the store held before it.
TimestampsKept ==
    \A id \in TaskIds :
        (/\ \E task \in AllTasks(file) : task.id = id
         /\ \E task \in AllTasks(file') : task.id = id)
        => LET old == TaskOf(file, id)
               new == TaskOf(file', id)
           IN  /\ ~StepIs("retryTask", id) =>
                      \A f \in TimeFields : old[f] # NoTime => new[f] = old[f]
               /\ new.createdAt # old.createdAt => StepIs("retryTask", id)
               /\ new.startedAt # old.startedAt =>
                      \/ StepIs("getNextTask", id) /\ new.startedAt = now'
                      \/ StepIs("retryTask", id) /\ new.startedAt = NoTime
               /\ new.completedAt # old.completedAt =>
                      \/ StepIs("completeTask", id) /\ new.completedAt = now'
                      \/ StepIs("retryTask", id) /\ new.completedAt = NoTime
               /\ new.failedAt # old.failedAt =>
                      \/ StepIs("failTask", id) /\ new.failedAt = now'
                      \/ StepIs("retryTask", id) /\ new.failedAt = NoTime

\* C26: between two retries of a task each of createdAt, startedAt, completedAt
\* and failedAt, once set, never changes and never becomes unset; startedAt is
\* set only by getNextTask, completedAt only by completeTask, failedAt only by
\* failTask, and only retryTask resets them.
C26_TimestampsSetOnce == [][TimestampsKept]_vars

\* A task created and dequeued in one millisecond has been completed in the
\* next: its earlier timestamps are as they were.
C26_Witness ==
    /\ last.op = "completeTask" /\ last.outcome = "ok"
    /\ last.ret[1].createdAt = 0 /\ last.ret[1].startedAt = 0
    /\ last.ret[1].completedAt = 1 /\ last.ret[1].failedAt = NoTime
    /\ TaskOf(file, last.id) = last.ret[1]

\* C27: after any sequence of queue operations getStats returns the current
\* length of each partition and a total equal to their sum; the total equals
\* the number of addTask calls that have succeeded, no operation having removed
\* a task from the store; and getStats leaves the store unchanged.
C27_StatsCountTheStore ==
    /\ (last.op = "getStats") =>
           /\ last.outcome = "ok"
           /\ \A p \in Partitions : last.ret[1][p] = Len(file[p])
           /\ last.ret[1].total = Len(file.pending) + Len(file.processing)
                                  + Len(file.completed) + Len(file.failed)
           /\ last.ret[1].total = Len(added)
           /\ file = prev
    /\ Cardinality(AllTasks(file)) = Len(added)
    /\ \A k \in 1..Len(added) : \E task \in AllTasks(file) : task.id = added[k]

\* getStats after two tasks were added and one of them was failed while pending.
C27_Witness ==
    /\ last.op = "getStats"
    /\ last.ret[1] = [pending |-> 1, processing |-> 0, completed |-> 0, failed |-> 1,
                      total |-> 2]
    /\ Len(added) = 2

\* The text holds the part somewhere.
Contains(text, part) ==
    \E k \in 1..(Len(text) - Len(part) + 1) : SubSeq(text, k, k + Len(part) - 1) = part

\* At least one existing file is there for the generation call of this step:
\* a file the caller supplied, or on the multi-step path a file of a step before.
ExistingFileAvailable(step) ==
    \/ ExistingFiles(Get(run.options, "existingFiles")) # << >>
    \/ \E j \in 1..step : /\ Steps[j].result # None
                          /\ Steps[j].result[1].files # << >>

\* Requirements were supplied for the run.
RequirementsSupplied == Get(run.options, "requirements") \notin {Undefined, "''"}

\* C28: for every generation call on either path, the prompt contains an
\* existing-files section exactly when at least one existing file, accumulated
\* from the steps before or supplied by the caller, is available, and a
\* requirements section exactly when requirements were supplied; an absent
\* section is omitted entirely.
C28_PromptSections ==
    run.at # "idle" =>
        \A p \in CallsOf("generateCode") :
            /\ Contains(calls[p].detail.prompt, ExistingFilesHeading)
                   <=> ExistingFileAvailable(calls[p].step)
            /\ Contains(calls[p].detail.prompt, RequirementsHeading)
                   <=> RequirementsSupplied

\* The positions of the log before p holding a call of this name made for the
\* same step as the call at p.
Before(p, name) ==
    {q \in 1..(p - 1) : calls[q].call = name /\ calls[q].step = calls[p].step}

\* C29: every commit made to the branch is given exactly the files saveCodeFiles
\* returned for that generation, in the order and with the paths and contents
\* generated; saveCodeFiles has returned successfully before the commit call
\* starts; and once saveCodeFiles has failed no commit is made.
C29_CommitsSavedFiles ==
    /\ \A p \in CallsOf("createOrUpdateFiles") :
           \E q \in Before(p, "saveCodeFiles") :
               /\ calls[q].ok
               /\ calls[p].detail.files = calls[q].value[1]
               /\ \E g \in Before(q, "generateCode") :
                      /\ calls[g].ok
                      /\ calls[g].value[1] = calls[p].detail.files
    /\ \A q \in CallsOf("saveCodeFiles") :
           ~calls[q].ok =>
               /\ \A p \in CallsOf("createOrUpdateFiles") : p < q
               /\ run.at \in {"failTask", "idle"}

\* The second step of a multi-step run has committed the two files generated
\* and saved for it.
C29_Witness ==
    /\ Len(calls) > 0
    /\ calls[Len(calls)].call = "createOrUpdateFiles" /\ calls[Len(calls)].ok
    /\ calls[Len(calls)].step = 1
    /\ Len(calls[Len(calls)].detail.files) = 2
    /\ calls[Len(calls)].detail.files[2].path = "'style.css'"
    /\ Cardinality(CallsOf("saveCodeFiles")) = 2

\* The statuses an activeTasks entry may move to from a status.
StatusMoves ==
    [s \in {"processing", "in-progress", "completed", "failed"} |->
        CASE s = "processing"  -> {"processing", "in-progress", "completed", "failed"}
          [] s = "in-progress" -> {"in-progress", "completed", "failed"}
          [] s = "completed"   -> {"completed"}
          [] s = "failed"      -> {"failed"}]

\* processTask has returned its result to processQueue.
HasReturned == run.result # None

\* processTask has thrown to processQueue's catch.
HasRaised == run.result = None /\ run.error # None

\* The status of the run's entry where processTask stands.
StatusWhereItStands ==
    /\ run.taskId # UnknownId =>
           active.status \in {"processing", "in-progress", "completed", "failed"}
    /\ HasReturned => active.status = "completed"
    /\ HasRaised => active.status = "failed"
    /\ active.status = "in-progress" => run.path = "multi"
    /\ active.status \in {"processing", "in-progress"} => ~HasReturned /\ ~HasRaised

\* A step of the program: a new run's entry starts as processing, a run's entry
\* moves only along StatusMoves.
StatusStep ==
    IF run'.taskId # run.taskId
    THEN active'.status = "processing"
    ELSE run.taskId # UnknownId => active'.status \in StatusMoves[active.status]

\* C30: each run's in-memory status starts as processing and moves only from
\* processing to in-progress to completed or failed, in-progress only in
\* multi-step runs; it is completed whenever processTask has returned and failed
\* whenever it has raised; once completed or failed it never changes.
C30_StatusLifecycle == []StatusWhereItStands /\ [][StatusStep]_vars

\* A multi-step run whose entry was marked completed before its final commit
\* message was requested, and which has returned although that request failed.
C30_Witness ==
    /\ run.path = "multi" /\ run.at = "completeTask" /\ HasReturned
    /\ active.status = "completed" /\ active.isMultiStep
    /\ answer = Some(Failure)

\* stop() has been called on the worker after its start() and it has not been
\* started again.
Stopped == ~worker.isRunning /\ worker.phase # "created"

\* A step of a stopped worker dequeues no task.
NoDequeueOnceStopped ==
    Stopped => /\ dequeued' = dequeued
               /\ Len(file'.pending) >= Len(file.pending)

\* start() on a running worker and stop() on a stopped one change nothing.
SecondCallChangesNothing ==
    /\ (worker.isRunning /\ WorkerStart) => UNCHANGED vars
    /\ (~worker.isRunning /\ WorkerStop) => UNCHANGED vars

\* C31: after stop() has been called on a running worker, the worker dequeues
\* no further task from pending; start() on a running worker changes nothing
\* (it creates no second poll timer) and stop() on a stopped worker changes
\* nothing.
C31_StoppedWorkerDequeuesNothing ==
    [][NoDequeueOnceStopped /\ SecondCallChangesNothing]_vars

\* C32: in every plan the orchestrator executes on the multi-step path, each
\* step's order field equals its position in the steps sequence, so that the
\* steps are executed in ascending order value.
C32_OrderIsPosition ==
    run.path = "multi" => \A k \in 1..Len(Steps) : Steps[k].order = k

\* The requests of a logged operation made through one of the two ways.
SentVia(e, via) == SelectSeq(e.sent, LAMBDA q : q.via = via)

\* The direct API path was taken once: its requests were made one after the
\* other from the first, each once, and none after a failed one.
AttemptedOnce(e) ==
    LET api == SentVia(e, "api")
    IN  /\ Len(api) \in 1..Len(ApiRequests(e.call))
        /\ \A k \in 1..Len(api) : api[k].request = ApiRequests(e.call)[k]
        /\ \A k \in 1..(Len(api) - 1) : api[k].ok

\* C33: for each of createBranch, createOrUpdateFiles, createPullRequest,
\* getPullRequestComments and mergePullRequest: with MCP enabled the MCP tool is
\* called once; when that call fails the direct API is attempted exactly once;
\* when it succeeds the direct API is not called; and when the direct API fails
\* the operation fails, nothing being tried after it.
C33_OneFallbackNoRetry ==
    \A p \in 1..Len(calls) :
        LET e == calls[p]
            mcp == SentVia(e, "mcp")
            api == SentVia(e, "api")
        IN  /\ e.call \in McpOperations
            /\ Len(mcp) = IF github.useMcp THEN 1 ELSE 0
            /\ (mcp # << >> /\ mcp[1].ok) => (api = << >> /\ e.ok)
            /\ (mcp = << >> \/ ~mcp[1].ok) => AttemptedOnce(e)
            /\ (mcp # << >>) => e.sent[1] = mcp[1]
            /\ (\E k \in 1..Len(api) : ~api[k].ok) =>
                   /\ ~e.ok
                   /\ ~e.sent[Len(e.sent)].ok
                   /\ e.result.error.message =
                          Str(FailedTo(e.call) \o "Not Found")
            /\ (api # << >> /\ \A k \in 1..Len(api) : api[k].ok) =>
                   (e.ok /\ Len(api) = Len(ApiRequests(e.call)))

\* A commit whose MCP call failed and whose direct API path failed at its third
\* request, after a pull request made through MCP alone.
C33_Witness ==
    /\ github.useMcp /\ Len(calls) = 2
    /\ calls[1].call = "createPullRequest" /\ calls[1].ok /\ Len(calls[1].sent) = 1
    /\ calls[2].call = "createOrUpdateFiles" /\ ~calls[2].ok
    /\ Len(calls[2].sent) = 4
    /\ ~calls[2].sent[1].ok /\ calls[2].sent[4].request = "git.createTree"

\* The tasks of the queue file, none while it is absent.
TasksIn(store) == IF store = Absent THEN {} ELSE AllTasks(store)

\* The file is there once ensureQueueFile has ended, and it holds every task
\* addTask has returned.
FileHoldsAddedTasks ==
    /\ pc["ensure"].at = "done" => file # Absent
    /\ \A k \in 1..Len(added) : \E task \in TasksIn(file) : task.id = added[k]

\* A step removes no file and no task from the file; ensureQueueFile creates an
\* absent file with four empty partitions and leaves an existing file as it is.
FileKeepsTasks ==
    /\ file # Absent => file' # Absent
    /\ TasksIn(file) \subseteq TasksIn(file')
    /\ pc'["ensure"] # pc["ensure"] =>
           file' = IF pc["ensure"].at = "writeFile" /\ file = Absent THEN EmptyStore
                   ELSE file

\* C34: initialization of the store file never destroys tasks: an absent file
\* is created with four empty partitions, an existing file is left unchanged,
\* and a task added by addTask right after the TaskQueue was constructed, while
\* ensureQueueFile is still running, is present in the store afterwards.
C34_InitializationKeepsTasks == []FileHoldsAddedTasks /\ [][FileKeepsTasks]_vars

\* The statuses a step of a plan may move to from a status.
StepMoves ==
    [s \in {"pending", "in-progress", "completed", "failed"} |->
        CASE s = "pending"     -> {"pending", "in-progress"}
          [] s = "in-progress" -> {"in-progress", "completed", "failed"}
          [] s = "completed"   -> {"completed"}
          [] s = "failed"      -> {"failed"}]

\* A step of the program moves every step of the run's plan along StepMoves.
StepStatusStep ==
    (run.path = "multi" /\ run'.path = "multi" /\ run'.taskId = run.taskId) =>
        \A k \in 1..Len(Steps) :
            run'.plan[1].steps[k].status \in StepMoves[Steps[k].status]

\* C35: in a multi-step run, step statuses only advance from pending to
\* in-progress to completed or failed: a step that has been marked completed
\* never changes to failed afterwards, whatever call fails.
C35_StepStatusAdvances == [][StepStatusStep]_vars

\* The ids of the tasks of a partition of the file.
IdsIn(p) == {file[p][k].id : k \in 1..Len(file[p])}

\* C36: every task moved to the processing partition eventually reaches
\* completed or failed, capability calls eventually returning or failing, also
\* when the worker's process is shut down and started again: no task stays in
\* processing forever (in a run that has not used up its MaxOps operations).
C36_ProcessingTaskEnds ==
    \A id \in 1..MaxTasks :
        (id \in IdsIn("processing"))
            ~> (id \in IdsIn("completed") \cup IdsIn("failed") \/ nops = MaxOps)

\* C37: the result stored with every task of the completed partition carries,
\* as its taskId, the id the task has in the queue.
C37_ResultNamesQueueTask ==
    \A k \in 1..Len(file.completed) :
        LET task == file.completed[k]
        IN  task.result # None => task.result[1].taskId = task.id

\* The steps before step `step` (counted from 0) whose result holds a file of
\* this path.
StepsWithFile(step, path) ==
    {j \in 1..step : /\ Steps[j].result # None
                     /\ \E n \in 1..Len(Steps[j].result[1].files) :
                            Steps[j].result[1].files[n].path = path}

\* The file of this path generated by the latest step before `step`.
LatestGenerated(step, path) ==
    LET j == CHOOSE i \in StepsWithFile(step, path) :
                 \A h \in StepsWithFile(step, path) : h <= i
        files == Steps[j].result[1].files
        n == CHOOSE m \in 1..Len(files) :
                 /\ files[m].path = path
                 /\ \A h \in 1..Len(files) : files[h].path = path => h <= m
    IN  files[n]

\* The entry of a file in JSON.stringify's text.
JsonEntry(f) == "\"" \o Text(f.path) \o "\": \"" \o Text(f.content) \o "\""

\* The paths of the existingFiles the caller supplied.
SuppliedPaths ==
    LET supplied == ExistingFiles(Get(run.options, "existingFiles"))
    IN  {supplied[k].path : k \in 1..Len(supplied)}

\* C38: in the context given to the generation call of a step of a multi-step
\* run, a path that is both among the files of the steps before and among the
\* caller's existingFiles has the content the latest earlier step generated,
\* not the caller's.
C38_GeneratedContentWins ==
    run.path = "multi" =>
        \A p \in CallsOf("generateCode") :
            \A path \in SuppliedPaths :
                StepsWithFile(calls[p].step, path) # {} =>
                    Contains(calls[p].detail.prompt,
                             JsonEntry(LatestGenerated(calls[p].step, path)))

\* The calls of the run's log made to the version-control client.
VersionControlCalls ==
    {p \in 1..Len(calls) :
         calls[p].call \in {"branchExists", "createBranch", "createOrUpdateFiles",
                            "createPullRequest"}}

\* The run's code generation or its saving of the files failed.
GenerationOrSaveFailed ==
    \E p \in CallsOf("generateCode") \cup CallsOf("saveCodeFiles") : ~calls[p].ok

\* C39: on the single-step path, when code generation or the saving of the
\* files fails, the run makes no call of branchExists, createBranch, the commit
\* or createPullRequest.
C39_NoVersionControlAfterFailure ==
    (run.path = "single" /\ GenerationOrSaveFailed) => VersionControlCalls = {}

\* A single-step run whose files were generated and could not be saved has
\* ended in processQueue's catch.
C39_Witness ==
    /\ run.path = "single"
    /\ run.at = "failTask"
    /\ \E p \in CallsOf("saveCodeFiles") : ~calls[p].ok
    /\ \E p \in CallsOf("generateCode") : calls[p].ok

\* C40: after every completed operation of the queue, the status of every
\* task is the name of the partition that holds it.
C40_StatusNamesPartition ==
    \A p \in Partitions :
        \A k \in 1..Len(file[p]) : file[p][k].status = p

\* Two tasks were added; one was dequeued and completed, the other is still
\* pending.
C40_Witness ==
    /\ last.op = "completeTask"
    /\ Len(file.completed) = 1
    /\ Len(file.pending) = 1

====
